---- MODULE Spec2Model ----
(***************************************************************************)
(* Model of src/migrate_dashboards.py: the orchestration that migrates     *)
(* legacy SQL dashboards to Lakeview dashboards, workspace by workspace,   *)
(* with per-step retry loops, a CSV log that a later run may resume from,  *)
(* and the selection filter.                                               *)
(*                                                                         *)
(* Python values are modelled as strings: None is "None", float NaN is     *)
(* "NaN", and text is itself.  Booleans of the log record are BOOLEAN.     *)
(* The error text of a record is the sequence of its "; "-joined entries;  *)
(* the NaN that pandas reads from an empty cell is the sequence <<"NaN">>. *)
(* Paths, names, owners and regex patterns are sequences of characters.    *)
(***************************************************************************)
EXTENDS Integers, Sequences, FiniteSets, TLC

VARIABLES
    workspaces,          \* main(): the configured workspace list
    log_file,            \* the CSV file at args.log_file
    remote,              \* the remote service, per workspace
    clock,               \* wall clock, one tick per run of main()
    args,                \* the parsed options of the current run
    pc,                  \* position in main() / migrate_dashboards()
    wi,                  \* index of the workspace that main() is at
    all_dataframes,      \* main(): records of the workspaces done so far
    existing_log,        \* migrate_dashboards(): the resume index
    dashboards,          \* migrate_dashboards(): the selected legacy dashboards
    lakeview_dashboards, \* migrate_dashboards(): the Lakeview listing
    log_rows,            \* migrate_dashboards(): records of this workspace
    idx,                 \* position of the running for loop
    attempt,             \* position of the running retry loop
    flaky,               \* the retry loops and listings of this run the remote failed in
    calls,               \* history: requests sent by the retry loop that ran last
    issued,              \* history: the HTTP requests sent in this run, with their result
    ws_status,           \* history: how each workspace of this run ended
    writes,              \* history: the times this run has written the log file
    notified,            \* history: how the email summary of this run went
    fExpr                \* the call of the selection functions under test

vars == <<workspaces, log_file, remote, clock, args, pc, wi, all_dataframes,
          existing_log, dashboards, lakeview_dashboards, log_rows, idx,
          attempt, flaky, calls, issued, ws_status, writes, notified, fExpr>>

-----------------------------------------------------------------------------
(* Bounds of the model *)

MaxRetries == 2     \* largest value of --max-retries
MaxFlaky == 1       \* retry loops and listings per run in which the remote fails

\* the times at which main() is run: a first run, and a second run over the log
\* file that the first one wrote
Times == <<"T1", "T2">>

-----------------------------------------------------------------------------
(* Python values *)

NONE == "None"
NAN == "NaN"
NanError == <<NAN>>

RECURSIVE SeqToSet(_)
\* set(s)
SeqToSet(s) == IF s = <<>> THEN {} ELSE {Head(s)} \cup SeqToSet(Tail(s))

\* bool(x) of a text-or-None-or-NaN value: None and "" are falsy, NaN is truthy
\* as if None were an id like any other
NotEmptyText(v) == v # ""

Truthy(v) == v # NONE /\ v # ""

\* bool(row["error"]): "" is falsy, NaN and any text are truthy
TruthyError(e) == e # <<>>

Get(d, k, default) == IF k \in DOMAIN d THEN d[k] ELSE default

\* a or b
Or2(a, b) == IF a # <<>> THEN a ELSE b


-----------------------------------------------------------------------------
(* Text helpers *)

RECURSIVE Text(_)
\* the Python str made of the characters cs
Text(cs) == IF cs = <<>> THEN "" ELSE Head(cs) \o Text(Tail(cs))

LowerOf == [c \in {"A", "B", "X"} |-> CASE c = "A" -> "a" [] c = "B" -> "b" [] c = "X" -> "x"]

\* re.IGNORECASE folds the case of pattern and subject
Fold(cs) == [i \in 1..Len(cs) |-> IF cs[i] \in DOMAIN LowerOf THEN LowerOf[cs[i]] ELSE cs[i]]

RECURSIVE Strip(_)
\* str.strip(): drops the blanks at both ends
Strip(cs) ==
    IF cs = <<>> THEN <<>>
    ELSE IF Head(cs) = " " THEN Strip(Tail(cs))
    ELSE IF cs[Len(cs)] = " " THEN Strip(SubSeq(cs, 1, Len(cs) - 1))
    ELSE cs

RECURSIVE Dedup(_, _)
\* lines 217-224: first occurrences, in order; seen is the set of ids already kept
Dedup(ids, seen) ==
    IF ids = <<>> THEN <<>>
    ELSE IF Head(ids) \in seen THEN Dedup(Tail(ids), seen)
    ELSE <<Head(ids)>> \o Dedup(Tail(ids), seen \cup {Head(ids)})

-----------------------------------------------------------------------------
(* pandas.read_csv type inference of one column of id cells.  A cell is the  *)
(* text between two commas; the empty cell is "".                            *)

IntLooking == {"7"}
FloatOf(v) == v \o ".0"
FloatLooking == {FloatOf(v) : v \in IntLooking}

\* the column is parsed as int64, as float64 or left as object (text)
ColumnType(cells) ==
    LET full == {c \in SeqToSet(cells) : c # ""}
    IN  IF full = {} THEN "float"
        ELSE IF full \subseteq IntLooking
             THEN (IF "" \in SeqToSet(cells) THEN "float" ELSE "int")
        ELSE IF full \subseteq (IntLooking \cup FloatLooking) THEN "float"
        ELSE "object"

\* the value read from a cell of a column of that type; an empty cell is NaN
ReadCell(cell, type) ==
    IF cell = "" THEN NAN
    ELSE IF type = "float" /\ cell \in IntLooking THEN FloatOf(cell)
    ELSE cell

\* str(v) / f"{v}" of a value read from a CSV
StrOf(v) == IF v = NAN THEN "nan" ELSE v

-----------------------------------------------------------------------------
(* load_dashboard_selection, lines 172-226 *)

IdColumns == <<"legacy_id", "id", "dashboard_id", "dashboardId">>

\* lines 198-202: the first recognized column name the CSV has, or "" for none
IdColumnOf(csv) ==
    LET hits == {i \in 1..Len(IdColumns) : IdColumns[i] \in DOMAIN csv.columns}
    IN  IF hits = {} THEN ""
        ELSE IdColumns[CHOOSE i \in hits : \A j \in hits : i <= j]

\* lines 195-214: df[id_column].dropna().astype(str).tolist(); any failure yields none
CsvIds(csv) ==
    IF ~csv.readable \/ IdColumnOf(csv) = "" THEN <<>>
    ELSE LET cells == csv.columns[IdColumnOf(csv)]
             type == ColumnType(cells)
             vals == [i \in 1..Len(cells) |-> ReadCell(cells[i], type)]
         IN  SelectSeq(vals, LAMBDA v : v # NAN)

\* line 190: [id.strip() for id in dashboard_ids.split(',') if id.strip()]
ListIds(items) ==
    LET stripped == [i \in 1..Len(items) |-> Text(Strip(items[i]))]
    IN  SelectSeq(stripped, LAMBDA v : v # "")

\* the ids that the sources of a selection yield, lines 186-214
YieldedIds(sel) ==
    (IF sel.ids_given /\ sel.ids # <<<<>>>> THEN ListIds(sel.ids) ELSE <<>>)
    \o (IF sel.csv_given THEN CsvIds(sel.csv) ELSE <<>>)

\* the returned value: None (none = TRUE) or the list of unique ids
load_dashboard_selection(sel) ==
    LET selected_ids == YieldedIds(sel)
    IN  IF selected_ids # <<>>
        THEN [none |-> FALSE, ids |-> Dedup(selected_ids, {})]
        ELSE [none |-> TRUE, ids |-> <<>>]

-----------------------------------------------------------------------------
(* filter_dashboards, lines 229-286.  A pattern is a regex of literal        *)
(* characters; the absent (None) and the empty pattern are both <<>>.        *)

\* as if the pattern had to match the whole field
FullMatch(pattern, subject) == Fold(pattern) = Fold(subject)

\* pattern.search(subject) with re.IGNORECASE
Search(pattern, subject) ==
    LET p == Fold(pattern)
        s == Fold(subject)
    IN  \E i \in 1..(Len(s) + 1) :
            /\ i + Len(p) - 1 <= Len(s)
            /\ SubSeq(s, i, i + Len(p) - 1) = p

\* line 264: d.get("path", "") or d.get("dashboard_path", "")
PathField(d) == Or2(Get(d, "path", <<>>), Get(d, "dashboard_path", <<>>))

\* lines 273-276
OwnerField(d) ==
    Or2(Get(d, "owner", <<>>),
        Or2(Get(Get(d, "user", <<>>), "user_name", <<>>),
            Or2(Get(d, "user_name", <<>>),
                Get(Get(d, "user", <<>>), "id", <<>>))))

\* line 283
NameField(d) == Get(d, "name", <<>>)

\* lines 252-258
\* as if the selected ids were not applied
NotByIds(ds, selected_ids) == ds

FilterByIds(ds, selected_ids) ==
    IF ~selected_ids.none /\ selected_ids.ids # <<>>
    THEN SelectSeq(ds, LAMBDA d : Get(d, "id", "") \in SeqToSet(selected_ids.ids))
    ELSE ds

\* lines 261-265
FilterByPath(ds, pattern) ==
    IF pattern # <<>> THEN SelectSeq(ds, LAMBDA d : Search(pattern, PathField(d))) ELSE ds

\* lines 267-278
FilterByOwner(ds, pattern) ==
    IF pattern # <<>> THEN SelectSeq(ds, LAMBDA d : Search(pattern, OwnerField(d))) ELSE ds

\* lines 280-284
FilterByName(ds, pattern) ==
    IF pattern # <<>> THEN SelectSeq(ds, LAMBDA d : Search(pattern, NameField(d))) ELSE ds

\* as if each filter read the listing and not what the filters before it left
LastFilterOnly(ds, path_pattern, owner_pattern, name_pattern, selected_ids) ==
    IF name_pattern # <<>> THEN FilterByName(ds, name_pattern)
    ELSE IF owner_pattern # <<>> THEN FilterByOwner(ds, owner_pattern)
    ELSE IF path_pattern # <<>> THEN FilterByPath(ds, path_pattern)
    ELSE FilterByIds(ds, selected_ids)

filter_dashboards(ds, path_pattern, owner_pattern, name_pattern, selected_ids) ==
    LET byId == FilterByIds(ds, selected_ids)
    IN  IF ~selected_ids.none /\ selected_ids.ids # <<>> /\ byId = <<>>
        THEN byId
        ELSE FilterByName(FilterByOwner(FilterByPath(byId, path_pattern), owner_pattern),
                          name_pattern)

-----------------------------------------------------------------------------
(* The log as DataFrame.to_csv writes it and pandas.read_csv reads it.       *)
(* A record in memory and a line of the file have the same fields; in the    *)
(* file every field is the text of its cell.                                 *)

\* to_csv of a text-or-None-or-NaN value: None and NaN are written as nothing
WriteText(v) == IF v = NONE \/ v = NAN THEN "" ELSE v
WriteBool(b) == IF b THEN "True" ELSE "False"
WriteError(e) == IF e = NanError THEN <<>> ELSE e

WriteRow(r) ==
    [workspace |-> WriteText(r.workspace),
     legacy_id |-> WriteText(r.legacy_id),
     lakeview_id |-> WriteText(r.lakeview_id),
     migrated |-> WriteBool(r.migrated),
     migration_datetime |-> WriteText(r.migration_datetime),
     published |-> WriteBool(r.published),
     publish_datetime |-> WriteText(r.publish_datetime),
     deleted_legacy |-> WriteBool(r.deleted_legacy),
     error |-> WriteError(r.error),
     dashboard_type |-> WriteText(r.dashboard_type)]

\* lines 1482-1503 and 1611-1617: the columns of every frame, in order
all_columns ==
    <<"workspace", "legacy_id", "legacy_name", "legacy_path", "legacy_created_at",
      "lakeview_id", "migrated", "migration_datetime", "published", "publish_datetime",
      "deleted_legacy", "error", "dashboard_type", "name", "path", "created_date",
      "published_date", "owner", "updated_at", "description">>

\* combined_df.to_csv(args.log_file), line 1654: a header line and a line per row
to_csv(rows) ==
    [exists |-> TRUE, readable |-> TRUE, header |-> all_columns,
     lines |-> [i \in 1..Len(rows) |-> WriteRow(rows[i])]]

\* no file at args.log_file
NoFile == [exists |-> FALSE, readable |-> FALSE, header |-> <<>>, lines |-> <<>>]

Column(lines, col) == [i \in 1..Len(lines) |-> lines[i][col]]

\* pd.read_csv(log_file), line 674: each column is typed by its cells
read_csv(lines) ==
    LET legacyType == ColumnType(Column(lines, "legacy_id"))
        lakeviewType == ColumnType(Column(lines, "lakeview_id"))
        text(c) == IF c = "" THEN NAN ELSE c
    IN  [i \in 1..Len(lines) |->
            [workspace |-> text(lines[i].workspace),
             legacy_id |-> ReadCell(lines[i].legacy_id, legacyType),
             lakeview_id |-> ReadCell(lines[i].lakeview_id, lakeviewType),
             migrated |-> (lines[i].migrated = "True"),
             migration_datetime |-> text(lines[i].migration_datetime),
             published |-> (lines[i].published = "True"),
             publish_datetime |-> text(lines[i].publish_datetime),
             deleted_legacy |-> (lines[i].deleted_legacy = "True"),
             error |-> IF lines[i].error = <<>> THEN NanError ELSE lines[i].error,
             dashboard_type |-> text(lines[i].dashboard_type)]]

\* as if the index were keyed by the legacy id alone
KeyById(workspace, legacy_id) == legacy_id

\* line 686
ResumeKey(workspace, legacy_id) == workspace \o ":" \o legacy_id

\* lines 676-680: the rows kept for the index
IsMigratedRow(r) == r.migrated /\ r.lakeview_id # NAN /\ r.lakeview_id # ""

RECURSIVE IndexRows(_)
\* lines 681-687: later rows replace earlier rows of the same key
IndexRows(rows) ==
    IF rows = <<>> THEN <<>>
    ELSE LET last == rows[Len(rows)]
             rest == IndexRows(SubSeq(rows, 1, Len(rows) - 1))
         IN  IF IsMigratedRow(last)
             THEN (ResumeKey(StrOf(last.workspace), StrOf(last.legacy_id)) :> last) @@ rest
             ELSE rest

\* as if the file were read without any check
ReadUnchecked(file) == IndexRows(read_csv(file.lines))

\* load_existing_log, lines 660-692: a dict from key to row; {} when there is no
\* file (line 670) and when anything raises (lines 690-692): read_csv on a file
\* that is no CSV, df['migrated'] or df['lakeview_id'] on a missing column,
\* row['legacy_id'] on a missing column when a row is kept
load_existing_log(file) ==
    IF ~file.exists THEN <<>>
    ELSE IF ~file.readable THEN <<>>
    ELSE IF ~({"migrated", "lakeview_id"} \subseteq SeqToSet(file.header)) THEN <<>>
    ELSE IF "legacy_id" \notin SeqToSet(file.header)
                /\ \E i \in DOMAIN file.lines : IsMigratedRow(read_csv(file.lines)[i])
         THEN <<>>
    ELSE IndexRows(read_csv(file.lines))

-----------------------------------------------------------------------------
(* The configuration and the remote service *)

W1 == [name |-> "w1", host |-> <<"https://", "w1.example", "/">>]
WBad == [name |-> "wbad", host |-> <<"wbad.example">>]
W2 == [name |-> "w2", host |-> <<"http://", "w2.example">>]

Configs == {<<W1, WBad, W2>>}

DashA == [id |-> "a", name |-> <<"A", "b">>, path |-> <<"/", "a">>]
Dash7 == [id |-> "7", name |-> <<"x">>, path |-> <<"/", "b">>]

RemoteInit ==
    [w \in {"w1", "w2"} |->
        IF w = "w1"
        THEN [legacy |-> <<DashA, Dash7>>, lakeview |-> <<>>, published |-> {}]
        ELSE [legacy |-> <<DashA>>, lakeview |-> <<"p0">>, published |-> {}]]

\* normalize_host, lines 131-149: the host without trailing slashes, or an error
RECURSIVE RStripSlash(_)
RStripSlash(h) ==
    IF h # <<>> /\ h[Len(h)] = "/" THEN RStripSlash(SubSeq(h, 1, Len(h) - 1)) ELSE h

normalize_host(host) ==
    IF host = <<>> THEN [ok |-> TRUE, host |-> <<>>]
    ELSE LET h == RStripSlash(host)
         IN  IF h # <<>> /\ Head(h) \in {"http://", "https://"}
             THEN [ok |-> TRUE, host |-> h]
             ELSE [ok |-> FALSE, host |-> h]

\* the id the remote gives the n-th Lakeview dashboard of a workspace, made from legacy id
NewId(id, n) == "lv" \o ToString(n) \o "-" \o id

\* migrate_legacy_dashboard with dry_run, line 1050
DryRunId(id) == "dry-run-" \o id

\* the exception that the n-th request of a retry loop raises
Failure(n) == "RequestException: failure " \o ToString(n)

\* as if the first exception of the loop were kept and raised at the end
FirstFailure(n) == Failure(1)

\* line 1276: raise re-raises the exception of the request that just failed
Surfaced(n) == Failure(n)

\* lines 1284-1289, 1374-1379, 1415-1420
ErrorEntry(step, exc) == step \o "_error: " \o exc

\* time.strftime(...) at the current time
Stamp == Times[clock]

-----------------------------------------------------------------------------
(* Options of a run *)

NoSelection == [ids_given |-> FALSE, ids |-> <<>>, csv_given |-> FALSE,
                csv |-> [readable |-> FALSE, columns |-> <<>>]]

SelOptions ==
    {NoSelection,
     [NoSelection EXCEPT !.ids_given = TRUE, !.ids = << <<"a">> >>],
     [NoSelection EXCEPT !.ids_given = TRUE, !.ids = << <<"7">> >>],
     [NoSelection EXCEPT !.ids_given = TRUE, !.ids = << <<" ">>, <<>> >>]}

RetryOptions == {0, MaxRetries}

ArgsOptions ==
    [dry_run : BOOLEAN, resume : BOOLEAN, publish : BOOLEAN, delete_legacy : BOOLEAN,
     max_retries : RetryOptions, selection : SelOptions, filter_path : {<<>>}]

NoArgs == [dry_run |-> FALSE, resume |-> FALSE, publish |-> FALSE, delete_legacy |-> FALSE,
           max_retries |-> 0, selection |-> NoSelection, filter_path |-> <<>>]

-----------------------------------------------------------------------------
(* The state machine of main() and migrate_dashboards() *)

Workspace == workspaces[wi]
workspace_name == Workspace.name

config == <<workspaces, fExpr>>
locals == <<existing_log, dashboards, lakeview_dashboards, log_rows, idx, attempt>>
report == <<writes, notified>>

\* the state before main() is first run
MainInit ==
    /\ workspaces \in Configs
    /\ log_file = NoFile
    /\ remote = RemoteInit
    /\ clock = 0
    /\ args = NoArgs
    /\ pc = "idle"
    /\ wi = 0
    /\ all_dataframes = <<>>
    /\ existing_log = <<>>
    /\ dashboards = <<>>
    /\ lakeview_dashboards = <<>>
    /\ log_rows = <<>>
    /\ idx = 0
    /\ attempt = 0
    /\ flaky = 0
    /\ calls = 0
    /\ issued = {}
    /\ ws_status = <<>>
    /\ writes = 0
    /\ notified = "none"

Init ==
    /\ MainInit
    /\ fExpr = <<>>

\* the remote may fail a request: a retry loop or listing that has not failed yet
\* may start to fail while fewer than MaxFlaky of this run have
MayFail == attempt > 0 \/ flaky < MaxFlaky
FlakyAfterFailure == IF attempt = 0 THEN flaky + 1 ELSE flaky

\* a request is sent: it is one more of the running retry loop
Request(op, id, result) ==
    /\ issued' = issued \cup {<<op, workspace_name, id, result>>}
    /\ calls' = IF attempt = 0 THEN 1 ELSE calls + 1

\* a step that sends nothing
NoRequest ==
    /\ issued' = issued
    /\ calls' = 0

\* the locals of migrate_dashboards are gone when it returns or raises
ResetLocals ==
    /\ existing_log' = <<>>
    /\ dashboards' = <<>>
    /\ lakeview_dashboards' = <<>>
    /\ log_rows' = <<>>
    /\ idx' = 0
    /\ attempt' = 0

Ended(status, n) == Append(ws_status, [name |-> workspace_name, status |-> status, rows |-> n])

\* as if the exception of one workspace left the loop over the workspaces
AbortRun ==
    /\ wi' = Len(workspaces) + 1
    /\ pc' = "ws"
    /\ ResetLocals
    /\ ws_status' = Ended("raised", 0)
    /\ UNCHANGED all_dataframes

\* lines 1602-1604: an exception out of migrate_dashboards skips the workspace
AbortWorkspace ==
    /\ wi' = wi + 1
    /\ pc' = "ws"
    /\ ResetLocals
    /\ ws_status' = Ended("raised", 0)
    /\ UNCHANGED all_dataframes

\* as if the frame of a workspace replaced the frames of the workspaces before
ReturnOnly(rows) ==
    /\ all_dataframes' = rows
    /\ wi' = wi + 1
    /\ pc' = "ws"
    /\ ResetLocals
    /\ ws_status' = Ended("returned", Len(rows))

\* migrate_dashboards returns the frame of its rows, main appends it (lines 1599-1601)
ReturnRows(rows) ==
    /\ all_dataframes' = all_dataframes \o rows
    /\ wi' = wi + 1
    /\ pc' = "ws"
    /\ ResetLocals
    /\ ws_status' = Ended("returned", Len(rows))

\* main(), lines 1525-1575: the options are parsed and the loop starts
StartRun ==
    /\ pc = "idle"
    /\ clock < Len(Times)
    /\ clock' = clock + 1
    /\ args' \in ArgsOptions
    /\ pc' = "ws"
    /\ wi' = 1
    /\ all_dataframes' = <<>>
    /\ issued' = {}
    /\ ws_status' = <<>>
    /\ flaky' = 0
    /\ calls' = 0
    /\ writes' = 0
    /\ notified' = "none"
    /\ UNCHANGED <<config, log_file, remote, locals>>

\* lines 1588-1592: the host of this workspace is invalid
InvalidHost ==
    /\ pc = "ws"
    /\ wi <= Len(workspaces)
    /\ ~normalize_host(Workspace.host).ok
    /\ wi' = wi + 1
    /\ ws_status' = Ended("invalid_host", 0)
    /\ UNCHANGED <<config, report, log_file, remote, clock, args, pc, all_dataframes, locals,
                   flaky, calls, issued>>

\* lines 1595-1599 and 1141-1150: migrate_dashboards is entered
EnterWorkspace ==
    /\ pc = "ws"
    /\ wi <= Len(workspaces)
    /\ normalize_host(Workspace.host).ok
    /\ existing_log' = IF args.resume THEN load_existing_log(log_file) ELSE <<>>
    /\ pc' = "list_legacy"
    /\ UNCHANGED <<config, report, log_file, remote, clock, args, wi, all_dataframes,
                   dashboards, lakeview_dashboards, log_rows, idx, attempt, flaky,
                   calls, issued, ws_status>>

\* list_all_legacy_dashboards, lines 888-925, called at line 1154; until the
\* selection of line 1199, dashboards is the whole legacy listing
ListLegacy ==
    /\ pc = "list_legacy"
    /\ \/ /\ Request("list_legacy", "", "ok")
          /\ dashboards' = remote[workspace_name].legacy
          /\ pc' = "list_lakeview"
          /\ UNCHANGED <<wi, all_dataframes, existing_log, lakeview_dashboards,
                         log_rows, idx, attempt, flaky, ws_status>>
       \/ /\ flaky < MaxFlaky
          /\ Request("list_legacy", "", "failed")
          /\ flaky' = flaky + 1
          /\ AbortWorkspace
    /\ UNCHANGED <<config, report, log_file, remote, clock, args>>

\* lines 963-1016: the listed dashboard with the answer of its published probe
Probed(w, id) ==
    [id |-> id,
     is_published |-> id \in remote[w].published,
     published_at |-> IF id \in remote[w].published THEN "Trev" ELSE NONE]

\* list_all_lakeview_dashboards, lines 928-1026, called at line 1159, and the
\* selection of lines 1147-1150 and 1199-1229
ListLakeview ==
    /\ pc = "list_lakeview"
    /\ \/ LET listed == [i \in 1..Len(remote[workspace_name].lakeview) |->
                            Probed(workspace_name, remote[workspace_name].lakeview[i])]
              selected == filter_dashboards(dashboards, args.filter_path, <<>>, <<>>,
                                            load_dashboard_selection(args.selection))
          IN  /\ Request("list_lakeview", "", "ok")
              /\ IF Len(dashboards) + Len(listed) = 0
                 THEN /\ ReturnRows(<<>>)
                      /\ UNCHANGED flaky
                 ELSE /\ lakeview_dashboards' = listed
                      /\ dashboards' = selected
                      /\ log_rows' = <<>>
                      /\ idx' = 1
                      /\ attempt' = 0
                      /\ pc' = "migrate"
                      /\ UNCHANGED <<wi, all_dataframes, existing_log, flaky, ws_status>>
       \/ /\ flaky < MaxFlaky
          /\ Request("list_lakeview", "", "failed")
          /\ flaky' = flaky + 1
          /\ AbortWorkspace
    /\ UNCHANGED <<config, report, log_file, remote, clock, args>>

\* lines 1233 and 1241
legacy_id == Get(dashboards[idx], "id", NONE)
resume_key == ResumeKey(workspace_name, legacy_id)

\* line 1295: d.get("published", False) or d.get("is_published", False)
dashboard_published ==
    Get(dashboards[idx], "published", FALSE) \/ Get(dashboards[idx], "is_published", FALSE)

\* lines 1307-1328: the record of a legacy dashboard after its migrate step
LegacyRow(lakeview_id, migrated, migration_datetime, error_msg) ==
    [workspace |-> workspace_name,
     legacy_id |-> legacy_id,
     lakeview_id |-> lakeview_id,
     migrated |-> migrated,
     migration_datetime |-> migration_datetime,
     published |-> dashboard_published,
     publish_datetime |-> NONE,
     deleted_legacy |-> FALSE,
     error |-> error_msg,
     dashboard_type |-> "legacy"]

\* as if the record were appended twice
AppendTwice(r) ==
    /\ log_rows' = Append(Append(log_rows, r), r)
    /\ idx' = idx + 1
    /\ attempt' = 0

\* log_rows.append(...), lines 1244 and 1306, and the loop going on
AppendRow(r) ==
    /\ log_rows' = Append(log_rows, r)
    /\ idx' = idx + 1
    /\ attempt' = 0

InMigrateLoop == pc = "migrate" /\ idx <= Len(dashboards)

\* line 1242
InResumeIndex == args.resume /\ resume_key \in DOMAIN existing_log

\* lines 1242-1247: the dashboard is in the resume index
ResumeSkip ==
    /\ InMigrateLoop
    /\ InResumeIndex
    /\ AppendRow(existing_log[resume_key])
    /\ NoRequest
    /\ UNCHANGED <<config, report, log_file, remote, clock, args, pc, wi, all_dataframes,
                   existing_log, dashboards, lakeview_dashboards, flaky, ws_status>>

\* lines 1263-1281 with range(max_retries) empty: no call, result stays None
MigrateNoCall ==
    /\ InMigrateLoop
    /\ ~InResumeIndex
    /\ args.max_retries <= 0
    /\ AppendRow(LegacyRow(NONE, FALSE, Stamp, <<>>))
    /\ NoRequest
    /\ UNCHANGED <<config, report, log_file, remote, clock, args, pc, wi, all_dataframes,
                   existing_log, dashboards, lakeview_dashboards, flaky, ws_status>>

\* lines 1048-1050 under lines 1265-1281: the simulated call of a dry run
MigrateDryRun ==
    /\ InMigrateLoop
    /\ ~InResumeIndex
    /\ attempt < args.max_retries
    /\ args.dry_run
    /\ AppendRow(LegacyRow(DryRunId(legacy_id), TRUE, Stamp, <<>>))
    /\ NoRequest
    /\ UNCHANGED <<config, report, log_file, remote, clock, args, pc, wi, all_dataframes,
                   existing_log, dashboards, lakeview_dashboards, flaky, ws_status>>

\* lines 1052-1059 under lines 1263-1291: one request of the migrate retry loop
MigrateCall ==
    /\ InMigrateLoop
    /\ ~InResumeIndex
    /\ attempt < args.max_retries
    /\ ~args.dry_run
    /\ \/ \* the remote creates the Lakeview dashboard
          LET new == NewId(legacy_id, Len(remote[workspace_name].lakeview) + 1)
          IN  /\ Request("migrate", legacy_id, "ok")
              /\ remote' = [remote EXCEPT ![workspace_name].lakeview = Append(@, new)]
              /\ AppendRow(LegacyRow(new, TRUE, Stamp, <<>>))
              /\ UNCHANGED flaky
       \/ \* the request fails and the loop goes on, line 1268
          /\ MayFail
          /\ attempt < args.max_retries - 1
          /\ Request("migrate", legacy_id, "failed")
          /\ attempt' = attempt + 1
          /\ flaky' = FlakyAfterFailure
          /\ UNCHANGED <<remote, log_rows, idx>>
       \/ \* the last request fails: lines 1276 and 1282-1291
          /\ MayFail
          /\ attempt = args.max_retries - 1
          /\ Request("migrate", legacy_id, "failed")
          /\ AppendRow(LegacyRow(NONE, FALSE, NONE,
                                 <<ErrorEntry("migrate", Surfaced(attempt + 1))>>))
          /\ flaky' = FlakyAfterFailure
          /\ UNCHANGED remote
    /\ UNCHANGED <<config, report, log_file, clock, args, pc, wi, all_dataframes,
                   existing_log, dashboards, lakeview_dashboards, ws_status>>

\* line 1232 ends: on to the publish pass of line 1337
EndMigrate ==
    /\ pc = "migrate"
    /\ idx > Len(dashboards)
    /\ pc' = "publish"
    /\ idx' = IF args.publish THEN 1 ELSE Len(log_rows) + 1
    /\ UNCHANGED <<config, report, log_file, remote, clock, args, wi, all_dataframes,
                   existing_log, dashboards, lakeview_dashboards, log_rows, attempt,
                   flaky, calls, issued, ws_status>>

\* the record that a pass is at (for row in log_rows)
row == log_rows[idx]

\* as if the retry loop went on after the record was set
SetRowAndRetry(r) ==
    /\ log_rows' = [log_rows EXCEPT ![idx] = r]
    /\ idx' = idx
    /\ attempt' = attempt + 1

\* the record of the pass is replaced and the pass goes to the next record
SetRow(r) ==
    /\ log_rows' = [log_rows EXCEPT ![idx] = r]
    /\ idx' = idx + 1
    /\ attempt' = 0

\* as if both passes took every record
AnyRow(r) == TRUE

\* lines 1342 and 1392: if not lakeview_id: continue
HasLakeviewId(r) == Truthy(r.lakeview_id)

\* lines 1380 and 1421: row["error"] = (row["error"] + "; " + err) if row["error"]
\* else err; the empty error cell of a resumed record is NaN, which is true and
\* cannot be added to a string: the TypeError leaves migrate_dashboards
RecordFailure(step, exc) ==
    IF row.error = NanError
    THEN /\ AbortWorkspace
    ELSE /\ SetRow([row EXCEPT !.error = IF TruthyError(@)
                                         THEN Append(@, ErrorEntry(step, exc))
                                         ELSE <<ErrorEntry(step, exc)>>])
         /\ UNCHANGED <<pc, wi, all_dataframes, existing_log, dashboards,
                        lakeview_dashboards, ws_status>>

InPublishLoop == pc = "publish" /\ idx <= Len(log_rows)

\* lines 1342-1343
PublishSkip ==
    /\ InPublishLoop
    /\ ~HasLakeviewId(row)
    /\ idx' = idx + 1
    /\ NoRequest
    /\ UNCHANGED <<config, report, log_file, remote, clock, args, pc, wi, all_dataframes,
                   existing_log, dashboards, lakeview_dashboards, log_rows, attempt,
                   flaky, ws_status>>

\* lines 1368-1371
Published(r) == [r EXCEPT !.published = TRUE, !.publish_datetime = Stamp]

\* lines 1347-1371 with range(max_retries) empty
PublishNoCall ==
    /\ InPublishLoop
    /\ HasLakeviewId(row)
    /\ args.max_retries <= 0
    /\ SetRow(Published(row))
    /\ NoRequest
    /\ UNCHANGED <<config, report, log_file, remote, clock, args, pc, wi, all_dataframes,
                   existing_log, dashboards, lakeview_dashboards, flaky, ws_status>>

\* lines 1082-1084 under lines 1347-1371
PublishDryRun ==
    /\ InPublishLoop
    /\ HasLakeviewId(row)
    /\ attempt < args.max_retries
    /\ args.dry_run
    /\ SetRow(Published(row))
    /\ NoRequest
    /\ UNCHANGED <<config, report, log_file, remote, clock, args, pc, wi, all_dataframes,
                   existing_log, dashboards, lakeview_dashboards, flaky, ws_status>>

\* the remote knows this Lakeview dashboard
OnRemote(id) == id \in SeqToSet(remote[workspace_name].lakeview)

\* lines 1086-1092 under lines 1345-1381: one request of the publish retry loop
PublishCall ==
    /\ InPublishLoop
    /\ HasLakeviewId(row)
    /\ attempt < args.max_retries
    /\ ~args.dry_run
    /\ \/ /\ OnRemote(row.lakeview_id)
          /\ Request("publish", row.lakeview_id, "ok")
          /\ remote' = [remote EXCEPT ![workspace_name].published = @ \cup {row.lakeview_id}]
          /\ SetRow(Published(row))
          /\ UNCHANGED <<pc, wi, all_dataframes, existing_log, dashboards,
                         lakeview_dashboards, flaky, ws_status>>
       \/ /\ MayFail \/ ~OnRemote(row.lakeview_id)
          /\ attempt < args.max_retries - 1
          /\ Request("publish", row.lakeview_id, "failed")
          /\ attempt' = attempt + 1
          /\ flaky' = IF OnRemote(row.lakeview_id) THEN FlakyAfterFailure ELSE flaky
          /\ UNCHANGED <<remote, pc, wi, all_dataframes, existing_log, dashboards,
                         lakeview_dashboards, log_rows, idx, ws_status>>
       \/ /\ MayFail \/ ~OnRemote(row.lakeview_id)
          /\ attempt = args.max_retries - 1
          /\ Request("publish", row.lakeview_id, "failed")
          /\ RecordFailure("publish", Surfaced(attempt + 1))
          /\ flaky' = IF OnRemote(row.lakeview_id) THEN FlakyAfterFailure ELSE flaky
          /\ UNCHANGED remote
    /\ UNCHANGED <<config, report, log_file, clock, args>>

\* line 1339 ends: on to the delete pass of line 1387
EndPublish ==
    /\ pc = "publish"
    /\ idx > Len(log_rows)
    /\ pc' = "delete"
    /\ idx' = IF args.delete_legacy THEN 1 ELSE Len(log_rows) + 1
    /\ UNCHANGED <<config, report, log_file, remote, clock, args, wi, all_dataframes,
                   existing_log, dashboards, lakeview_dashboards, log_rows, attempt,
                   flaky, calls, issued, ws_status>>

\* as if records were deleted while the publish pass is still going
InDeleteEarly == pc \in {"publish", "delete"} /\ idx <= Len(log_rows)

\* for row in log_rows, line 1389
InDeleteLoop == pc = "delete" /\ idx <= Len(log_rows)

\* lines 1392-1393
DeleteSkip ==
    /\ InDeleteLoop
    /\ ~HasLakeviewId(row)
    /\ idx' = idx + 1
    /\ NoRequest
    /\ UNCHANGED <<config, report, log_file, remote, clock, args, pc, wi, all_dataframes,
                   existing_log, dashboards, lakeview_dashboards, log_rows, attempt,
                   flaky, ws_status>>

\* as if the record were left as it is
Unmarked(r) == r

\* line 1412
Deleted(r) == [r EXCEPT !.deleted_legacy = TRUE]

\* lines 1397-1412 with range(max_retries) empty
DeleteNoCall ==
    /\ InDeleteLoop
    /\ HasLakeviewId(row)
    /\ args.max_retries <= 0
    /\ SetRow(Deleted(row))
    /\ NoRequest
    /\ UNCHANGED <<config, report, log_file, remote, clock, args, pc, wi, all_dataframes,
                   existing_log, dashboards, lakeview_dashboards, flaky, ws_status>>

\* lines 1110-1112 under lines 1397-1412
DeleteDryRun ==
    /\ InDeleteLoop
    /\ HasLakeviewId(row)
    /\ attempt < args.max_retries
    /\ args.dry_run
    /\ SetRow(Deleted(row))
    /\ NoRequest
    /\ UNCHANGED <<config, report, log_file, remote, clock, args, pc, wi, all_dataframes,
                   existing_log, dashboards, lakeview_dashboards, flaky, ws_status>>

\* as if the delete request carried the id of the new dashboard
LakeviewTarget == row.lakeview_id

\* the id in the URL of line 1114
DeleteTarget == StrOf(row.legacy_id)

\* the remote has a legacy dashboard of this id
IsLegacy(id) == \E i \in 1..Len(remote[workspace_name].legacy) :
                    remote[workspace_name].legacy[i].id = id

\* the legacy listing without the dashboard that went to the trash
Trashed(ds, id) == SelectSeq(ds, LAMBDA d : d.id # id)

\* lines 1114-1116 under lines 1395-1422: one request of the delete retry loop
DeleteCall ==
    /\ InDeleteLoop
    /\ HasLakeviewId(row)
    /\ attempt < args.max_retries
    /\ ~args.dry_run
    /\ \/ /\ IsLegacy(DeleteTarget)
          /\ Request("delete", DeleteTarget, "ok")
          /\ remote' = [remote EXCEPT ![workspace_name].legacy = Trashed(@, DeleteTarget)]
          /\ SetRow(Deleted(row))
          /\ UNCHANGED <<pc, wi, all_dataframes, existing_log, dashboards,
                         lakeview_dashboards, flaky, ws_status>>
       \/ /\ MayFail \/ ~IsLegacy(DeleteTarget)
          /\ attempt < args.max_retries - 1
          /\ Request("delete", DeleteTarget, "failed")
          /\ attempt' = attempt + 1
          /\ flaky' = IF IsLegacy(DeleteTarget) THEN FlakyAfterFailure ELSE flaky
          /\ UNCHANGED <<remote, pc, wi, all_dataframes, existing_log, dashboards,
                         lakeview_dashboards, log_rows, idx, ws_status>>
       \/ /\ MayFail \/ ~IsLegacy(DeleteTarget)
          /\ attempt = args.max_retries - 1
          /\ Request("delete", DeleteTarget, "failed")
          /\ RecordFailure("delete", Surfaced(attempt + 1))
          /\ flaky' = IF IsLegacy(DeleteTarget) THEN FlakyAfterFailure ELSE flaky
          /\ UNCHANGED remote
    /\ UNCHANGED <<config, report, log_file, clock, args>>

\* as if the informational record ignored the answer of the published probe
UnprobedRow(d) ==
    [workspace |-> workspace_name,
     legacy_id |-> "",
     lakeview_id |-> d.id,
     migrated |-> TRUE,
     migration_datetime |-> "",
     published |-> FALSE,
     publish_datetime |-> NONE,
     deleted_legacy |-> FALSE,
     error |-> <<>>,
     dashboard_type |-> "lakeview"]

\* lines 1457-1478: the informational record of a listed Lakeview dashboard
LakeviewRow(d) ==
    [workspace |-> workspace_name,
     legacy_id |-> "",
     lakeview_id |-> d.id,
     migrated |-> TRUE,
     migration_datetime |-> "",
     published |-> d.is_published,
     publish_datetime |-> d.published_at,
     deleted_legacy |-> FALSE,
     error |-> <<>>,
     dashboard_type |-> "lakeview"]

\* lines 1427-1518: the informational records are appended and the frame returned
Merge ==
    /\ pc = "delete"
    /\ idx > Len(log_rows)
    /\ ReturnRows(log_rows \o [i \in 1..Len(lakeview_dashboards) |->
                                  LakeviewRow(lakeview_dashboards[i])])
    /\ NoRequest
    /\ UNCHANGED <<config, report, log_file, remote, clock, args, flaky>>

\* lines 1606-1655: the frames are concatenated and written to the log file
WriteLog ==
    /\ pc = "ws"
    /\ wi > Len(workspaces)
    /\ log_file' = to_csv(all_dataframes)
    /\ writes' = writes + 1
    /\ \E send_email \in BOOLEAN : pc' = IF send_email THEN "email" ELSE "idle"
    /\ wi' = 0
    /\ UNCHANGED <<config, notified, remote, clock, args, all_dataframes, locals, flaky,
                   calls, issued, ws_status>>

\* as if an exception of the email summary left main()
EmailRaised == "raised"

\* lines 1658-1663: whatever send_email_summary does, main() ends normally
AfterEmail == "idle"

\* how send_email_summary can go: no recipient, no record or no credentials
\* (lines 303-311 and 385-390), sent (line 403), an exception logged (lines
\* 404-405 and 1662-1663)
EmailOutcomes ==
    IF all_dataframes = <<>> THEN {"skipped", "failed"} ELSE {"skipped", "sent", "failed"}

\* lines 1657-1663 when args.send_email is set
SendEmail ==
    /\ pc = "email"
    /\ notified' \in EmailOutcomes
    /\ pc' = AfterEmail
    /\ UNCHANGED <<config, writes, log_file, remote, clock, args, wi, all_dataframes,
                   locals, flaky, calls, issued, ws_status>>

Next ==
    \/ StartRun
    \/ InvalidHost
    \/ EnterWorkspace
    \/ ListLegacy
    \/ ListLakeview
    \/ ResumeSkip
    \/ MigrateNoCall
    \/ MigrateDryRun
    \/ MigrateCall
    \/ EndMigrate
    \/ PublishSkip
    \/ PublishNoCall
    \/ PublishDryRun
    \/ PublishCall
    \/ EndPublish
    \/ DeleteSkip
    \/ DeleteNoCall
    \/ DeleteDryRun
    \/ DeleteCall
    \/ Merge
    \/ WriteLog
    \/ SendEmail

Spec == Init /\ [][Next]_vars

\* the process is killed in the middle of a run: what it held in memory is
\* gone (all_dataframes and ws_status stay as the history of what it had done),
\* the log file is what it was
Crash ==
    /\ pc \notin {"idle", "crashed"}
    /\ pc' = "crashed"
    /\ ResetLocals
    /\ UNCHANGED <<config, report, log_file, remote, clock, args, wi, all_dataframes,
                   flaky, calls, issued, ws_status>>

CrashNext == Next \/ Crash

CrashSpec == Init /\ [][CrashNext]_vars

\* main() is started again after a run that crashed, over the same log file
Rerun ==
    /\ pc = "crashed"
    /\ clock < Len(Times)
    /\ clock' = clock + 1
    /\ args' \in ArgsOptions
    /\ pc' = "ws"
    /\ wi' = 1
    /\ all_dataframes' = <<>>
    /\ issued' = {}
    /\ ws_status' = <<>>
    /\ flaky' = 0
    /\ calls' = 0
    /\ writes' = 0
    /\ notified' = "none"
    /\ UNCHANGED <<config, log_file, remote, locals>>

\* --resume is given to every run
ResumeOn == clock > 0 => args.resume

\* the runs with --resume over one log file, crashed runs among them
ResumeRunsNext ==
    \/ Next /\ ResumeOn'
    \/ Crash /\ ResumeOn'
    \/ Rerun /\ ResumeOn'

ResumeRunsSpec == Init /\ [][ResumeRunsNext]_vars

-----------------------------------------------------------------------------
(* The selection of lines 1147-1150 and 1199-1205 on its own: the listing,   *)
(* the ID sources and the patterns are drawn, then load_dashboard_selection  *)
(* and filter_dashboards are applied to them.                                *)

FDash1 == [id |-> "1", path |-> <<"/", "a">>]
FDash2 == [id |-> "2", path |-> <<"/", "b">>]
FDash3 == [id |-> "3", dashboard_path |-> <<"/", "A", "b">>, name |-> <<"A", "b">>,
           user |-> [user_name |-> <<"x">>]]
FDash7 == [id |-> "7", path |-> <<"/", "b">>, name |-> <<"B">>, owner |-> <<"X", "a">>]

FListings == {<<FDash1, FDash2>>, <<FDash2, FDash3, FDash1>>, <<FDash7, FDash3>>}

FCsvs ==
    {[readable |-> FALSE, columns |-> <<>>],
     [readable |-> TRUE, columns |-> [title |-> <<"2">>]],
     [readable |-> TRUE, columns |-> [id |-> <<"2", "x">>]],
     [readable |-> TRUE, columns |-> [id |-> <<"1">>, legacy_id |-> <<"7">>]],
     [readable |-> TRUE, columns |-> [dashboard_id |-> <<"7", "">>]]}

FSelections ==
    {NoSelection,
     [NoSelection EXCEPT !.ids_given = TRUE, !.ids = << <<"2">> >>],
     [NoSelection EXCEPT !.ids_given = TRUE, !.ids = << <<" ", "3">>, <<"1", " ">>, <<"3">> >>],
     [NoSelection EXCEPT !.ids_given = TRUE, !.ids = << <<" ">>, <<>> >>]}
    \cup {[NoSelection EXCEPT !.csv_given = TRUE, !.csv = c] : c \in FCsvs}
    \cup {[ids_given |-> TRUE, ids |-> << <<"1">> >>, csv_given |-> TRUE, csv |-> c] : c \in FCsvs}

FPaths == {<<>>, <<"/", "a">>, <<"/", "A">>, <<"b">>}
FOwners == {<<>>, <<"x">>}
FNames == {<<>>, <<"a">>, <<"a", "b">>}

FInit ==
    /\ MainInit
    /\ fExpr \in [stage : {"input"}, dashboards : FListings, selection : FSelections,
                  path_pattern : FPaths, owner_pattern : FOwners, name_pattern : FNames,
                  selected_ids : {[none |-> TRUE, ids |-> <<>>]}, out : {<<>>}]

\* lines 1147-1150
FSelect ==
    /\ fExpr.stage = "input"
    /\ fExpr' = [fExpr EXCEPT !.stage = "selected",
                              !.selected_ids = load_dashboard_selection(fExpr.selection)]
    /\ UNCHANGED <<workspaces, log_file, remote, clock, args, pc, wi, all_dataframes,
                   locals, flaky, calls, issued, ws_status, report>>

\* lines 1199-1205
FFilter ==
    /\ fExpr.stage = "selected"
    /\ fExpr' = [fExpr EXCEPT !.stage = "filtered",
                              !.out = filter_dashboards(fExpr.dashboards, fExpr.path_pattern,
                                                        fExpr.owner_pattern, fExpr.name_pattern,
                                                        fExpr.selected_ids)]
    /\ UNCHANGED <<workspaces, log_file, remote, clock, args, pc, wi, all_dataframes,
                   locals, flaky, calls, issued, ws_status, report>>

FNext == FSelect \/ FFilter

FilterSpec == FInit /\ [][FNext]_vars

-----------------------------------------------------------------------------
(* The columns of the table (lines 1480-1518 and 1606-1617, 1654), as a pure  *)
(* computation on the keys of the rows.  A row is the sequence of its keys,   *)
(* in insertion order.                                                        *)

\* lines 1306-1327: the keys of a record built for a legacy dashboard
LegacyKeys ==
    <<"workspace", "legacy_id", "legacy_name", "legacy_path", "legacy_created_at",
      "lakeview_id", "migrated", "migration_datetime", "published", "publish_datetime",
      "deleted_legacy", "error", "dashboard_type", "name", "path", "created_date",
      "published_date", "owner", "updated_at", "description">>

\* lines 1457-1478: the keys of an informational record
LakeviewKeys ==
    <<"workspace", "legacy_id", "legacy_name", "legacy_path", "legacy_created_at",
      "lakeview_id", "migrated", "migration_datetime", "published", "publish_datetime",
      "deleted_legacy", "error", "dashboard_type", "name", "path", "created_date",
      "published_date", "owner", "updated_at", "description">>

\* lines 1611-1617: the columns of the table of a run without any record
EmptyColumns ==
    <<"workspace", "legacy_id", "legacy_name", "legacy_path", "legacy_created_at",
      "lakeview_id", "migrated", "migration_datetime", "published",
      "publish_datetime", "deleted_legacy", "error", "dashboard_type",
      "name", "path", "created_date", "published_date",
      "owner", "updated_at", "description">>

\* the header of a prior log written by something else: columns missing, one foreign
OldHeader == <<"workspace", "legacy_id", "lakeview_id", "migrated", "notes">>

\* line 686 and line 1244: a resumed record carries the columns of the prior log
ResumedKeys(header) == header

\* lines 1368-1371: publishing a record sets three of its keys
PublishedKeys(keys) == Dedup(keys \o <<"published", "publish_datetime", "published_date">>, {})

TRowKeys ==
    {LegacyKeys, LakeviewKeys, ResumedKeys(all_columns), ResumedKeys(OldHeader),
     PublishedKeys(ResumedKeys(OldHeader))}

\* the records of one workspace: at most MaxRows of them
MaxRows == 2

TLogRows == UNION {[1..n -> TRowKeys] : n \in 0..MaxRows}

RECURSIVE Flatten(_)
Flatten(ss) == IF ss = <<>> THEN <<>> ELSE Head(ss) \o Flatten(Tail(ss))

\* pd.DataFrame(log_rows), line 1507: the keys of the rows, first occurrences in order
DataFrameColumns(rows) == Dedup(Flatten(rows), {})

\* the frame with no column added
NoBackFill(cols) == cols

\* lines 1509-1512: every expected column the frame lacks is added
BackFill(cols) == cols \o SelectSeq(all_columns, LAMBDA c : c \notin SeqToSet(cols))

KeyError == <<"KeyError">>

\* df[all_columns], line 1515: the named columns, in that order
Reorder(cols) == IF SeqToSet(all_columns) \subseteq SeqToSet(cols) THEN all_columns ELSE KeyError

\* lines 1219-1225: the columns of the frame of a workspace without any dashboard
NoDashboardColumns ==
    <<"workspace", "legacy_id", "legacy_name", "legacy_path", "legacy_created_at",
      "lakeview_id", "migrated", "migration_datetime", "published",
      "publish_datetime", "deleted_legacy", "error", "dashboard_type",
      "name", "path", "created_date", "published_date",
      "owner", "updated_at", "description">>

\* lines 1217-1225 and 1506-1518: the frame returned for one workspace; listed
\* tells whether the workspace has any dashboard
Frame(rows, listed) ==
    IF ~listed THEN [columns |-> NoDashboardColumns, len |-> 0]
    ELSE [columns |-> Reorder(BackFill(DataFrameColumns(rows))), len |-> Len(rows)]

\* lines 1599-1601: only the frames with a record are kept
Appended(frames) == SelectSeq(frames, LAMBDA f : f.len > 0)

\* lines 1607-1617: pd.concat keeps the union of the columns, first occurrences in order
CombinedColumns(frames) ==
    IF Appended(frames) # <<>>
    THEN Dedup(Flatten([i \in 1..Len(Appended(frames)) |-> Appended(frames)[i].columns]), {})
    ELSE EmptyColumns

TInit ==
    /\ MainInit
    /\ fExpr \in {f \in [stage : {"rows"}, listed : [1..2 -> BOOLEAN],
                         log_rows : [1..2 -> TLogRows],
                         frames : {<<>>}, columns : {<<>>}, header : {<<>>}] :
                        \A i \in 1..2 : ~f.listed[i] => f.log_rows[i] = <<>>}

\* lines 1506-1518, once per workspace
TFrames ==
    /\ fExpr.stage = "rows"
    /\ fExpr' = [fExpr EXCEPT !.stage = "frames",
                              !.frames = [i \in 1..2 |->
                                             Frame(fExpr.log_rows[i], fExpr.listed[i])]]
    /\ UNCHANGED <<workspaces, log_file, remote, clock, args, pc, wi, all_dataframes,
                   locals, flaky, calls, issued, ws_status, report>>

\* lines 1607-1617
TCombine ==
    /\ fExpr.stage = "frames"
    /\ fExpr' = [fExpr EXCEPT !.stage = "combined",
                              !.columns = CombinedColumns(fExpr.frames)]
    /\ UNCHANGED <<workspaces, log_file, remote, clock, args, pc, wi, all_dataframes,
                   locals, flaky, calls, issued, ws_status, report>>

\* line 1654: the header line of the file is the columns of the table
TWrite ==
    /\ fExpr.stage = "combined"
    /\ fExpr' = [fExpr EXCEPT !.stage = "written", !.header = fExpr.columns]
    /\ UNCHANGED <<workspaces, log_file, remote, clock, args, pc, wi, all_dataframes,
                   locals, flaky, calls, issued, ws_status, report>>

TNext == TFrames \/ TCombine \/ TWrite

TableSpec == TInit /\ [][TNext]_vars

-----------------------------------------------------------------------------
(* Loading the prior log for a resume (lines 660-692 and 1141-1144) and the   *)
(* skip decision of line 1242, on drawn log files.                            *)

\* a line of a prior log; the cells of a column the file lacks are empty
RLine(legacy, lakeview, migrated) ==
    [workspace |-> "w1", legacy_id |-> legacy, lakeview_id |-> lakeview,
     migrated |-> migrated, migration_datetime |-> "T1", published |-> "False",
     publish_datetime |-> "", deleted_legacy |-> "False", error |-> <<>>,
     dashboard_type |-> IF legacy = "" THEN "lakeview" ELSE "legacy"]

RLines ==
    {RLine("a", "n1", "True"), RLine("7", "n2", "True"), RLine("a", "", "False"),
     RLine("", "p0", "True")}

\* the lines of a prior log: at most MaxLines of them
MaxLines == 2

RLineSeqs == UNION {[1..n -> RLines] : n \in 0..MaxLines}

RequiredColumns == {"migrated", "lakeview_id", "legacy_id"}

\* a CSV file with these lines that has every column but col
FileWithout(lines, col) ==
    [exists |-> TRUE, readable |-> TRUE,
     header |-> SelectSeq(all_columns, LAMBDA c : c # col),
     lines |-> [i \in 1..Len(lines) |->
                   IF col \in DOMAIN lines[i] THEN [lines[i] EXCEPT ![col] = ""]
                   ELSE lines[i]]]

\* a file that pd.read_csv cannot parse
Garbage == [exists |-> TRUE, readable |-> FALSE, header |-> <<>>, lines |-> <<>>]

RFiles ==
    {NoFile, Garbage}
        \cup {FileWithout(ls, c) : ls \in RLineSeqs, c \in RequiredColumns \cup {"name"}}

\* the ids of the dashboards selected in the workspace
RIds == <<"a", "7">>

\* line 1242: the dashboard is skipped
RSkipped(resume, index, id) == resume /\ ResumeKey("w1", id) \in DOMAIN index

RInit ==
    /\ MainInit
    /\ fExpr \in [stage : {"start"}, resume : BOOLEAN, file : RFiles,
                  index : {<<>>}, processed : {<<>>}]

\* lines 1141-1144
RLoad ==
    /\ fExpr.stage = "start"
    /\ fExpr' = [fExpr EXCEPT !.stage = "loaded",
                              !.index = IF fExpr.resume THEN load_existing_log(fExpr.file)
                                        ELSE <<>>]
    /\ UNCHANGED <<workspaces, log_file, remote, clock, args, pc, wi, all_dataframes,
                   locals, flaky, calls, issued, ws_status, report>>

\* lines 1232-1247: the dashboards that are not skipped are processed
RDecide ==
    /\ fExpr.stage = "loaded"
    /\ fExpr' = [fExpr EXCEPT !.stage = "decided",
                              !.processed = SelectSeq(RIds, LAMBDA id :
                                                ~RSkipped(fExpr.resume, fExpr.index, id))]
    /\ UNCHANGED <<workspaces, log_file, remote, clock, args, pc, wi, all_dataframes,
                   locals, flaky, calls, issued, ws_status, report>>

RNext == RLoad \/ RDecide

ResumeSpec == RInit /\ [][RNext]_vars

-----------------------------------------------------------------------------
(* The options of a run: argparse (lines 698-850) and merge_config_with_args  *)
(* (lines 560-657).  Option names are sequences of characters.                *)

\* "--max-retries" and "--dry-run" without the leading dashes
OptMaxRetries == <<"m", "a", "x", "-", "r", "e", "t", "r", "i", "e", "s">>
OptDryRun == <<"d", "r", "y", "-", "r", "u", "n">>

Options == {OptMaxRetries, OptDryRun}

\* line 620
boolean_flags == {<<"d", "r", "y", "_", "r", "u", "n">>}

\* str.replace('-', '_'), line 630; also the dest that argparse gives an option
Underscore(cs) == [i \in 1..Len(cs) |-> IF cs[i] = "-" THEN "_" ELSE cs[i]]

\* t begins with s
StartsWith(t, s) == Len(s) <= Len(t) /\ SubSeq(t, 1, Len(s)) = s

\* argparse: the option that a name on the command line stands for - the option
\* of that name, else the only option that the name is a prefix of
Resolve(name) ==
    IF name \in Options THEN name
    ELSE CHOOSE o \in Options : StartsWith(o, name)

\* a command-line argument "--name", or "--name=value" when eq; after "--name"
\* of a valued option its value is the next argument, which starts with no dash;
\* a flag has no value (0 here)
Arg(name, eq, value) == [name |-> name, eq |-> eq, value |-> value]

\* the text of the argument after lstrip('--'), line 630
Stripped(a) == IF a.eq THEN a.name \o <<"=">> \o <<ToString(a.value)>> ELSE a.name

\* the value given on the command line and the value in the configuration file
CliRetries == 2
FileRetries == 5
DEFAULT_MAX_RETRIES == 3

MaxRetriesArgs ==
    {<<>>,
     <<Arg(OptMaxRetries, FALSE, CliRetries)>>,
     <<Arg(OptMaxRetries, TRUE, CliRetries)>>,
     <<Arg(SubSeq(OptMaxRetries, 1, 7), FALSE, CliRetries)>>}

DryRunArgs ==
    {<<>>,
     <<Arg(OptDryRun, FALSE, 0)>>,
     <<Arg(SubSeq(OptDryRun, 1, 3), FALSE, 0)>>}

\* sys.argv[1:], the values of valued options left out
Argvs == {a \o b : a \in MaxRetriesArgs, b \in DryRunArgs}
             \cup {b \o a : a \in MaxRetriesArgs, b \in DryRunArgs}

\* the configuration file: keys are the keys it has; "True" and "False" are
\* the booleans of the file, the other values of dry_run are texts
MConfigs ==
    [keys : SUBSET {"max_retries", "dry_run"}, max_retries : {FileRetries},
     dry_run : {"True", "False", "yes", "off"}]

\* parser.parse_args(), line 850: defaults, then the options given
parse_args(argv) ==
    LET given(o) == \E i \in DOMAIN argv : Resolve(argv[i].name) = o
        valueOf(o) == argv[CHOOSE i \in DOMAIN argv : Resolve(argv[i].name) = o].value
    IN  [max_retries |-> IF given(OptMaxRetries) THEN valueOf(OptMaxRetries)
                         ELSE DEFAULT_MAX_RETRIES,
         dry_run |-> given(OptDryRun)]

\* lines 627-634
cli_args_provided(argv) == {Underscore(Stripped(argv[i])) : i \in DOMAIN argv}

\* lines 650-653: a boolean of the file, or a text that reads as one
ConfigBool(v) == IF v \in {"True", "False"} THEN v = "True" ELSE v \in {"true", "1", "yes", "on"}

\* merge_config_with_args, lines 622-657
merge_config_with_args(conf, parsed, argv) ==
    LET provided == cli_args_provided(argv)
        flagged == IF Underscore(OptDryRun) \in provided THEN TRUE ELSE parsed.dry_run
    IN  [max_retries |-> IF Underscore(OptMaxRetries) \in provided
                              \/ "max_retries" \notin conf.keys
                         THEN parsed.max_retries
                         ELSE conf.max_retries,
         dry_run |-> IF Underscore(OptDryRun) \in provided \/ "dry_run" \notin conf.keys
                     THEN flagged
                     ELSE ConfigBool(conf.dry_run)]

MInit ==
    /\ MainInit
    /\ fExpr \in [stage : {"argv"}, argv : Argvs, config : MConfigs,
                  parsed : {<<>>}, merged : {<<>>}]

\* line 850
MParse ==
    /\ fExpr.stage = "argv"
    /\ fExpr' = [fExpr EXCEPT !.stage = "parsed", !.parsed = parse_args(fExpr.argv)]
    /\ UNCHANGED <<workspaces, log_file, remote, clock, args, pc, wi, all_dataframes,
                   locals, flaky, calls, issued, ws_status, report>>

\* lines 853-856 (and again line 1543)
MMerge ==
    /\ fExpr.stage = "parsed"
    /\ fExpr' = [fExpr EXCEPT !.stage = "merged",
                              !.merged = merge_config_with_args(fExpr.config, fExpr.parsed,
                                                                fExpr.argv)]
    /\ UNCHANGED <<workspaces, log_file, remote, clock, args, pc, wi, all_dataframes,
                   locals, flaky, calls, issued, ws_status, report>>

MNext == MParse \/ MMerge

MergeSpec == MInit /\ [][MNext]_vars

-----------------------------------------------------------------------------
(* The retry loop of a step (lines 1263-1276, 1347-1366, 1397-1410) with its  *)
(* waits, on drawn max_retries, retry_delay and answers of the remote.        *)

\* the largest max_retries and the largest retry_delay (in seconds) drawn
MaxAttempts == 3
MaxDelay == 2

\* as if every wait were retry_delay
FlatSleep(retry_delay, n) == retry_delay

\* sleep_time = args.retry_delay * (attempt + 1), lines 1269, 1359, 1403
SleepTime(retry_delay, n) == retry_delay * (n + 1)

\* the answer of the remote to each request of the loop
Scripts == [1..MaxAttempts -> {"ok", "failed"}]

BInit ==
    /\ MainInit
    /\ fExpr \in [step : {"migrate", "publish", "delete"}, max_retries : 0..MaxAttempts, retry_delay : 0..MaxDelay,
                  script : Scripts, n : {0}, failed : {0}, sleeps : {<<>>},
                  status : {"running"}]

InRetryLoop == fExpr.status = "running" /\ fExpr.n < fExpr.max_retries

\* lines 1265-1266: the request succeeds, break
BSucceed ==
    /\ InRetryLoop
    /\ fExpr.script[fExpr.n + 1] = "ok"
    /\ fExpr' = [fExpr EXCEPT !.status = "done"]
    /\ UNCHANGED <<workspaces, log_file, remote, clock, args, pc, wi, all_dataframes,
                   locals, flaky, calls, issued, ws_status, report>>

\* lines 1267-1274: the request fails and is not the last: sleep, next attempt
BBackoff ==
    /\ InRetryLoop
    /\ fExpr.script[fExpr.n + 1] = "failed"
    /\ fExpr.n < fExpr.max_retries - 1
    /\ fExpr' = [fExpr EXCEPT !.sleeps = Append(@, SleepTime(fExpr.retry_delay, fExpr.n)),
                              !.failed = @ + 1,
                              !.n = @ + 1]
    /\ UNCHANGED <<workspaces, log_file, remote, clock, args, pc, wi, all_dataframes,
                   locals, flaky, calls, issued, ws_status, report>>

\* lines 1275-1276: the last request fails: raise
BRaise ==
    /\ InRetryLoop
    /\ fExpr.script[fExpr.n + 1] = "failed"
    /\ ~(fExpr.n < fExpr.max_retries - 1)
    /\ fExpr' = [fExpr EXCEPT !.failed = @ + 1, !.status = "raised"]
    /\ UNCHANGED <<workspaces, log_file, remote, clock, args, pc, wi, all_dataframes,
                   locals, flaky, calls, issued, ws_status, report>>

\* range(max_retries) has no pass
BNoPass ==
    /\ fExpr.status = "running"
    /\ ~(fExpr.n < fExpr.max_retries)
    /\ fExpr' = [fExpr EXCEPT !.status = "done"]
    /\ UNCHANGED <<workspaces, log_file, remote, clock, args, pc, wi, all_dataframes,
                   locals, flaky, calls, issued, ws_status, report>>

BNext == BSucceed \/ BBackoff \/ BRaise \/ BNoPass

BackoffSpec == BInit /\ [][BNext]_vars

-----------------------------------------------------------------------------
(* list_all_legacy_dashboards (lines 888-925) on drawn answers of the remote: *)
(* fExpr.pages[k] is the answer to the k-th request of the listing.           *)

\* the largest number of requests of one listing
MaxPages == 3

\* the next_page_token values of a page: absent, empty, or a cursor
Tokens == {NONE, "", "t1", "t2"}

\* line 920, "if not page_token"
Falsy(token) == token \in {NONE, ""}

\* the answers of the remote: the "results" of the payload, its
\* "next_page_token", and whether raise_for_status (line 914) passes
Pages == [results : {<<>>, <<"a">>, <<"b">>}, next_page_token : Tokens, ok : BOOLEAN]

\* as if each page replaced the pages before it
KeepLastPage(all_dashboards, results) == results

\* line 917: all_dashboards.extend(payload.get("results", []))
extend(all_dashboards, results) == all_dashboards \o results

\* lines 905-906
LgInit ==
    /\ MainInit
    /\ fExpr \in [pages : [1..MaxPages -> Pages], page_token : {NONE},
                  all_dashboards : {<<>>}, requests : {<<>>},
                  status : {"running"}, result : {{}}]

\* the answer to the request that the loop sends next
NextPage == fExpr.pages[Len(fExpr.requests) + 1]

\* line 908, "while True"
InListing == fExpr.status = "running" /\ Len(fExpr.requests) < MaxPages

\* lines 909-921: a page with a cursor; the next request will carry it
LgPage ==
    /\ InListing
    /\ NextPage.ok
    /\ ~Falsy(NextPage.next_page_token)
    /\ fExpr' = [fExpr EXCEPT !.requests = Append(@, fExpr.page_token),
                              !.all_dashboards = extend(@, NextPage.results),
                              !.page_token = NextPage.next_page_token]
    /\ UNCHANGED <<workspaces, log_file, remote, clock, args, pc, wi, all_dataframes,
                   locals, flaky, calls, issued, ws_status, report>>

\* lines 909-920 and 925: a page without a cursor ends the loop; return
LgLast ==
    /\ InListing
    /\ NextPage.ok
    /\ Falsy(NextPage.next_page_token)
    /\ fExpr' = [fExpr EXCEPT !.requests = Append(@, fExpr.page_token),
                              !.all_dashboards = extend(@, NextPage.results),
                              !.page_token = NextPage.next_page_token,
                              !.result = {extend(fExpr.all_dashboards, NextPage.results)},
                              !.status = "returned"]
    /\ UNCHANGED <<workspaces, log_file, remote, clock, args, pc, wi, all_dataframes,
                   locals, flaky, calls, issued, ws_status, report>>

\* line 914: raise_for_status raises, and nothing catches it in the function
LgFail ==
    /\ InListing
    /\ ~NextPage.ok
    /\ fExpr' = [fExpr EXCEPT !.requests = Append(@, fExpr.page_token),
                              !.status = "raised"]
    /\ UNCHANGED <<workspaces, log_file, remote, clock, args, pc, wi, all_dataframes,
                   locals, flaky, calls, issued, ws_status, report>>

LgNext == LgPage \/ LgLast \/ LgFail

LegacyListSpec == LgInit /\ [][LgNext]_vars

\* the interpreter runs the loop on: a request that can be sent is sent
LegacyListLive == LegacyListSpec /\ WF_vars(LgNext)

-----------------------------------------------------------------------------
(* list_all_lakeview_dashboards (lines 928-1026) on a listing of two pages,   *)
(* with drawn answers to the detail fetch and the published probe of each     *)
(* dashboard. The last entry of the listing has no id.                        *)

LvListing ==
    << [dashboards |-> << [id |-> "d1"], [id |-> "d2"] >>, next_page_token |-> "t1"],
       [dashboards |-> << [id |-> "d3"], [id |-> ""] >>, next_page_token |-> NONE] >>

\* the answers to GET .../dashboards/{id}: a status, or an exception of requests
DetailAnswers == [raises : BOOLEAN, status : {200, 404}]

\* the body of a 200 answer of the detail endpoint
detail_data(id) == [dashboard_id |-> id, path |-> "/p"]

\* the bodies of a 200 answer of the published endpoint
PublishedData ==
    [revision_create_time : {NONE, "Trev"}, updated_at : {NONE, "Tupd"}]

\* the answers to GET .../dashboards/{id}/published: a status with its body,
\* or an exception of requests that carries a response (status) or none (0)
ProbeAnswers ==
    [raises : {FALSE}, status : {200}, data : PublishedData]
        \cup [raises : {FALSE}, status : {404, 500},
              data : {[revision_create_time |-> NONE, updated_at |-> NONE]}]
        \cup [raises : {TRUE}, status : {0, 404, 500},
              data : {[revision_create_time |-> NONE, updated_at |-> NONE]}]

\* line 964: dashboard.get("id") or dashboard.get("dashboard_id")
DashboardId(dashboard) ==
    IF Truthy(Get(dashboard, "id", NONE)) THEN dashboard.id
    ELSE Get(dashboard, "dashboard_id", NONE)

\* dict.update, line 974: the keys of the detail replace those of the summary
Update(dashboard, data) == data @@ dashboard

\* lines 968-977: the dashboard after the detail fetch
Detailed(dashboard, answer) ==
    IF ~answer.raises /\ answer.status = 200
    THEN Update(dashboard, detail_data(DashboardId(dashboard)))
    ELSE dashboard

\* lines 992-998: the first truthy date of the published body
PublishedAt(data) ==
    IF Truthy(data.revision_create_time) THEN data.revision_create_time
    ELSE IF Truthy(data.updated_at) THEN data.updated_at
    ELSE NONE

\* as if a dashboard whose probe could not be made were published
AssumePublished(dashboard) == TRUE

\* lines 1009, 1011 and 1015: dashboard.get("published", False)
PublishedOrFalse(dashboard) == Get(dashboard, "published", FALSE)

\* lines 982-1013: the dashboard after the published probe
ProbedDashboard(dashboard, answer) ==
    LET is_published ==
            IF ~answer.raises THEN answer.status = 200
            ELSE IF answer.status = 404 THEN FALSE
            ELSE PublishedOrFalse(dashboard)
        published_at ==
            IF ~answer.raises /\ answer.status = 200 THEN PublishedAt(answer.data)
            ELSE NONE
    IN  [is_published |-> is_published, published_at |-> published_at] @@ dashboard

\* lines 1014-1016: a dashboard without id is not probed
Unprobed(dashboard) ==
    [is_published |-> PublishedOrFalse(dashboard), published_at |-> NONE] @@ dashboard

\* lines 946-947
LvInit ==
    /\ MainInit
    /\ fExpr = [page |-> 0, page_token |-> NONE, dashboards |-> <<>>, k |-> 0,
                stage |-> "request", details |-> <<>>, probes |-> <<>>,
                all_dashboards |-> <<>>, status |-> "running", result |-> {}]

\* lines 949-959: the request of the next page; raise_for_status is not caught
LvRequest ==
    /\ fExpr.status = "running"
    /\ fExpr.stage = "request"
    /\ \/ fExpr' = [fExpr EXCEPT !.page = @ + 1,
                                  !.dashboards = LvListing[fExpr.page + 1].dashboards,
                                  !.page_token = LvListing[fExpr.page + 1].next_page_token,
                                  !.k = 1,
                                  !.stage = "item"]
       \/ fExpr' = [fExpr EXCEPT !.page = @ + 1, !.status = "raised"]
    /\ UNCHANGED <<workspaces, log_file, remote, clock, args, pc, wi, all_dataframes,
                   locals, flaky, calls, issued, ws_status, report>>

\* line 963: the loop is at a dashboard of the page
AtDashboard ==
    /\ fExpr.status = "running"
    /\ fExpr.stage = "item"
    /\ fExpr.k <= Len(fExpr.dashboards)

\* lines 965-980: the detail fetch of a dashboard with an id
LvDetail ==
    /\ AtDashboard
    /\ Truthy(DashboardId(fExpr.dashboards[fExpr.k]))
    /\ \E answer \in DetailAnswers :
          fExpr' = [fExpr EXCEPT !.dashboards[fExpr.k] = Detailed(@, answer),
                                 !.details = Append(@, answer),
                                 !.stage = "probe"]
    /\ UNCHANGED <<workspaces, log_file, remote, clock, args, pc, wi, all_dataframes,
                   locals, flaky, calls, issued, ws_status, report>>

\* lines 982-1013: the published probe of that dashboard
LvProbe ==
    /\ fExpr.status = "running"
    /\ fExpr.stage = "probe"
    /\ \E answer \in ProbeAnswers :
          fExpr' = [fExpr EXCEPT !.dashboards[fExpr.k] = ProbedDashboard(@, answer),
                                 !.probes = Append(@, answer),
                                 !.k = @ + 1,
                                 !.stage = "item"]
    /\ UNCHANGED <<workspaces, log_file, remote, clock, args, pc, wi, all_dataframes,
                   locals, flaky, calls, issued, ws_status, report>>

\* lines 1014-1016: a dashboard without an id
LvNoId ==
    /\ AtDashboard
    /\ ~Truthy(DashboardId(fExpr.dashboards[fExpr.k]))
    /\ fExpr' = [fExpr EXCEPT !.dashboards[fExpr.k] = Unprobed(@), !.k = @ + 1]
    /\ UNCHANGED <<workspaces, log_file, remote, clock, args, pc, wi, all_dataframes,
                   locals, flaky, calls, issued, ws_status, report>>

\* lines 1018-1026: the page is added; the next page, or return
LvExtend ==
    /\ fExpr.status = "running"
    /\ fExpr.stage = "item"
    /\ fExpr.k > Len(fExpr.dashboards)
    /\ IF Falsy(fExpr.page_token)
       THEN fExpr' = [fExpr EXCEPT !.all_dashboards = @ \o fExpr.dashboards,
                                   !.result = {fExpr.all_dashboards \o fExpr.dashboards},
                                   !.status = "returned"]
       ELSE fExpr' = [fExpr EXCEPT !.all_dashboards = @ \o fExpr.dashboards,
                                   !.stage = "request"]
    /\ UNCHANGED <<workspaces, log_file, remote, clock, args, pc, wi, all_dataframes,
                   locals, flaky, calls, issued, ws_status, report>>

LvNext == LvRequest \/ LvDetail \/ LvProbe \/ LvNoId \/ LvExtend

LakeviewListSpec == LvInit /\ [][LvNext]_vars

-----------------------------------------------------------------------------
(* extract_error_details (lines 105-128) on drawn response bodies.            *)

\* a JSON field that holds a string, holds null, or is absent
Scalars(t) ==
    [kind : {"absent", "null"}, text : {""}] \cup [kind : {"str"}, text : {"", t}]

Absent == [kind |-> "absent", text |-> ""]

\* the "error" field: absent, null, a string, or an object with a "message"
ErrorValues ==
    [kind : {"absent", "null"}, text : {""}, message : {Absent}]
        \cup [kind : {"str"}, text : {"", "e"}, message : {Absent}]
        \cup [kind : {"dict"}, text : {""}, message : Scalars("nm")]

\* the response bodies: a JSON object with "error", "message" and possibly
\* another field, a JSON array, or text that is not JSON
Bodies ==
    [shape : {"dict"}, error : ErrorValues, message : Scalars("m"), code : BOOLEAN]
        \cup [shape : {"list", "text"}, error : {[kind |-> "absent", text |-> "", message |-> Absent]},
              message : {Absent}, code : {FALSE}]

\* Python's truth value of a field's value
TruthyScalar(v) == v.kind = "str" /\ v.text # ""
TruthyValue(v) == TruthyScalar(v) \/ (v.kind = "dict" /\ v.message.kind # "absent")

\* a value as JSON text writes it (q the quote) and as Python's str() does
ScalarText(v, q, null) == IF v.kind = "null" THEN null ELSE q \o v.text \o q

ValueText(v, q, null) ==
    IF v.kind = "dict"
    THEN "{" \o (IF v.message.kind = "absent" THEN ""
                 ELSE q \o "message" \o q \o ": " \o ScalarText(v.message, q, null)) \o "}"
    ELSE ScalarText(v, q, null)

\* the members of the object, in the order of the body
Members(body, q, null) ==
    (IF body.error.kind = "absent" THEN <<>>
     ELSE <<q \o "error" \o q \o ": " \o ValueText(body.error, q, null)>>)
    \o (IF body.message.kind = "absent" THEN <<>>
        ELSE <<q \o "message" \o q \o ": " \o ScalarText(body.message, q, null)>>)
    \o (IF body.code THEN <<q \o "code" \o q \o ": 5">> ELSE <<>>)

RECURSIVE Joined(_)
Joined(ms) ==
    IF ms = <<>> THEN ""
    ELSE IF Len(ms) = 1 THEN ms[1]
    ELSE ms[1] \o ", " \o Joined(Tail(ms))

\* response.text
ResponseText(body) ==
    IF body.shape = "text" THEN "Bad Gateway"
    ELSE IF body.shape = "list" THEN "[]"
    ELSE "{" \o Joined(Members(body, "\"", "null")) \o "}"

\* str(error_json), line 123
StrOfJson(body) == "{" \o Joined(Members(body, "'", "None")) \o "}"

\* error_json.get('error', {}), line 120
ErrorOrEmpty(body) ==
    IF body.error.kind = "absent"
    THEN [kind |-> "dict", text |-> "", message |-> Absent]
    ELSE body.error

\* lines 119-125: the first truthy operand of the chain of "or"; calling get
\* on what is no dict raises AttributeError, caught at line 127
ErrorMsg(body) ==
    IF ErrorOrEmpty(body).kind # "dict" THEN ResponseText(body)
    ELSE IF TruthyScalar(ErrorOrEmpty(body).message) THEN ErrorOrEmpty(body).message.text
    ELSE IF TruthyScalar(body.message) THEN body.message.text
    ELSE IF TruthyValue(body.error) THEN ValueText(body.error, "'", "None")
    ELSE StrOfJson(body)

EInit ==
    /\ MainInit
    /\ fExpr \in [response : Bodies, stage : {"called"}, returned : {""}]

\* line 117: response.json() parses the body
EJson ==
    /\ fExpr.stage = "called"
    /\ fExpr.response.shape # "text"
    /\ fExpr' = [fExpr EXCEPT !.stage = "parsed"]
    /\ UNCHANGED <<workspaces, log_file, remote, clock, args, pc, wi, all_dataframes,
                   locals, flaky, calls, issued, ws_status, report>>

\* lines 117 and 127-128: response.json() raises ValueError
ENotJson ==
    /\ fExpr.stage = "called"
    /\ fExpr.response.shape = "text"
    /\ fExpr' = [fExpr EXCEPT !.stage = "returned", !.returned = ResponseText(fExpr.response)]
    /\ UNCHANGED <<workspaces, log_file, remote, clock, args, pc, wi, all_dataframes,
                   locals, flaky, calls, issued, ws_status, report>>

\* lines 119-125: the body is an object
EDict ==
    /\ fExpr.stage = "parsed"
    /\ fExpr.response.shape = "dict"
    /\ fExpr' = [fExpr EXCEPT !.stage = "returned", !.returned = ErrorMsg(fExpr.response)]
    /\ UNCHANGED <<workspaces, log_file, remote, clock, args, pc, wi, all_dataframes,
                   locals, flaky, calls, issued, ws_status, report>>

\* line 126: the body is JSON but no object
ENoDict ==
    /\ fExpr.stage = "parsed"
    /\ fExpr.response.shape # "dict"
    /\ fExpr' = [fExpr EXCEPT !.stage = "returned", !.returned = ResponseText(fExpr.response)]
    /\ UNCHANGED <<workspaces, log_file, remote, clock, args, pc, wi, all_dataframes,
                   locals, flaky, calls, issued, ws_status, report>>

ENext == EJson \/ ENotJson \/ EDict \/ ENoDict

ErrorSpec == EInit /\ [][ENext]_vars

-----------------------------------------------------------------------------
(* Properties *)

Passes == {"migrate", "publish", "delete"}
Results == {"ok", "failed"}

\* how the workspace that main() left last ended
LastEnded == ws_status[Len(ws_status)]

\* an id cell that holds nothing
IsEmptyId(v) == v \in {NONE, "", NAN}

\* the error entries that a failed migrate step can leave
MigrateErrorEntries == {ErrorEntry("migrate", Failure(n)) : n \in 1..MaxRetries}

\* the migrate step of this record failed
MigrateFailed(r) == r.error # <<>> /\ r.error[1] \in MigrateErrorEntries

\* no delete request went out for the legacy dashboard of this record
NoDeleteIssued(r) == \A res \in Results : <<"delete", r.workspace, r.legacy_id, res>> \notin issued

C1_RowOk(r) ==
    /\ r.deleted_legacy => ~IsEmptyId(r.lakeview_id)
    /\ MigrateFailed(r) => (~r.deleted_legacy /\ NoDeleteIssued(r))

\* C1: in every record of a run's output (the rows being built, the frames
\* returned, the lines of the log file), deleted_legacy is true only if
\* lakeview_id is non-empty, whatever the flags; a record whose migrate step
\* failed is not marked deleted and no delete request is sent for it.
C1_DeletedOnlyWithNewId ==
    /\ \A i \in DOMAIN log_rows : C1_RowOk(log_rows[i])
    /\ \A i \in DOMAIN all_dataframes : C1_RowOk(all_dataframes[i])
    /\ \A i \in DOMAIN log_file.lines :
           log_file.lines[i].deleted_legacy = "True" => log_file.lines[i].lakeview_id # ""

\* the delete pass has gone over a record whose migrate step failed and has
\* deleted the legacy dashboard of another record
C1_Witness ==
    /\ pc = "delete"
    /\ args.delete_legacy
    /\ \E i, j \in 1..(idx - 1) :
           /\ i <= Len(log_rows) /\ j <= Len(log_rows)
           /\ MigrateFailed(log_rows[i])
           /\ log_rows[j].deleted_legacy
           /\ <<"delete", workspace_name, log_rows[j].legacy_id, "ok">> \in issued

\* a real migrate call for this legacy dashboard succeeded on the remote
ReallyMigrated(w, id) ==
    \E n \in 1..Len(remote[w].lakeview) : remote[w].lakeview[n] = NewId(id, n)

\* C2: across the runs over one log file, a delete request is sent for a
\* legacy dashboard only if a real migrate call for it succeeded on the remote.
C2_DeleteOnlyConfirmedMigrated ==
    \A w \in {"w1", "w2"}, id \in {"a", "7"}, res \in Results :
        <<"delete", w, id, res>> \in issued => ReallyMigrated(w, id)

\* the record of the resume index for the dashboard of row i is in the frame
SameMigration(r, prior) ==
    /\ r.lakeview_id = prior.lakeview_id
    /\ r.migrated = prior.migrated
    /\ r.migration_datetime = prior.migration_datetime

\* C3: in a run with resume, every selected dashboard that is in the resume
\* index is in the output of the run with the lakeview_id, migrated and
\* migration_datetime of the prior log, also when the publish and delete
\* passes run.
C3_ResumedRecordsKept ==
    [][(pc \in Passes /\ pc' = "ws" /\ args.resume) =>
          \A i \in DOMAIN dashboards :
              LET key == ResumeKey(workspace_name, dashboards[i].id)
              IN  key \in DOMAIN existing_log =>
                      \E j \in DOMAIN all_dataframes' :
                          /\ all_dataframes'[j].workspace = workspace_name
                          /\ all_dataframes'[j].legacy_id = dashboards[i].id
                          /\ SameMigration(all_dataframes'[j], existing_log[key])]_vars

\* the step op of this workspace for id succeeded / failed every time
Succeeded(op, id) == <<op, workspace_name, id, "ok">> \in issued
FailedOnly(op, id) ==
    /\ <<op, workspace_name, id, "failed">> \in issued
    /\ <<op, workspace_name, id, "ok">> \notin issued

\* the frame that migrate_dashboards has just returned to main
ReturnedFrame == SubSeq(all_dataframes', Len(all_dataframes) + 1, Len(all_dataframes'))

\* its records of legacy origin
LegacyRecords(frame) == SelectSeq(frame, LAMBDA r : r.dashboard_type = "legacy")

C4_RecordOk(d, r) ==
    /\ r.legacy_id = d.id
    /\ (Succeeded("migrate", d.id) /\ Succeeded("publish", r.lakeview_id)
            /\ Succeeded("delete", d.id))
           => (r.migrated /\ r.published /\ r.deleted_legacy /\ r.error = <<>>)
    /\ FailedOnly("migrate", d.id)
           => (~r.migrated /\ ~r.published /\ ~r.deleted_legacy
                  /\ Len(r.error) = 1 /\ r.error[1] \in MigrateErrorEntries)

\* C4: when a workspace is processed with publish and delete enabled, the frame
\* returned holds exactly one legacy record per selected dashboard, in order;
\* a dashboard whose migrate, publish and delete calls succeeded has migrated,
\* published and deleted_legacy true and an empty error; one whose migrate
\* calls all failed has the three false and exactly one migrate_error entry.
C4_EndToEnd ==
    [][(pc = "delete" /\ pc' = "ws" /\ args.publish /\ args.delete_legacy
           /\ LastEnded'.status = "returned") =>
          LET out == LegacyRecords(ReturnedFrame)
          IN  /\ Len(out) = Len(dashboards)
              /\ \A i \in DOMAIN dashboards : C4_RecordOk(dashboards[i], out[i])]_vars

\* w1 has returned a frame in which dashboard 7 went through the three steps
\* and dashboard a failed every migrate attempt
C4_Witness ==
    /\ pc = "ws"
    /\ wi = 2
    /\ args.publish /\ args.delete_legacy /\ ~args.resume
    /\ LastEnded.status = "returned"
    /\ <<"migrate", "w1", "7", "ok">> \in issued
    /\ <<"delete", "w1", "7", "ok">> \in issued
    /\ <<"migrate", "w1", "a", "failed">> \in issued
    /\ \E i, j \in DOMAIN all_dataframes :
           /\ all_dataframes[i].legacy_id = "a" /\ ~all_dataframes[i].migrated
           /\ all_dataframes[j].legacy_id = "7" /\ all_dataframes[j].published
           /\ all_dataframes[j].deleted_legacy

\* C5: a migrate step whose attempts all fail sends exactly max_retries migrate
\* requests and leaves exactly one migrate_error entry, that of the last attempt.
C5_RetryBound ==
    [][(pc = "migrate" /\ Len(log_rows') = Len(log_rows) + 1
           /\ ~log_rows'[Len(log_rows')].migrated /\ args.max_retries > 0) =>
          /\ calls' = args.max_retries
          /\ log_rows'[Len(log_rows')].error =
                 <<ErrorEntry("migrate", Failure(args.max_retries))>>]_vars

\* the migrate step of the record just appended failed on every attempt of
\* more than one
C5_Witness ==
    /\ pc = "migrate"
    /\ idx > 1
    /\ args.max_retries = MaxRetries
    /\ calls = MaxRetries
    /\ log_rows[idx - 1].error = <<ErrorEntry("migrate", Failure(MaxRetries))>>
    /\ \A res \in Results :
           <<"migrate", workspace_name, log_rows[idx - 1].legacy_id, res>> \in issued
               <=> res = "failed"

\* C6: a dry run sends no request to the remote over the whole workflow, and
\* its output holds one record per selected dashboard with the synthesized
\* lakeview_id and migrated true.
C6_DryRunNoCalls ==
    args.dry_run =>
        /\ issued = {}
        /\ pc \in {"publish", "delete"} =>
               /\ Len(log_rows) = Len(dashboards)
               /\ \A i \in DOMAIN dashboards :
                      \/ /\ args.resume
                         /\ ResumeKey(workspace_name, dashboards[i].id) \in DOMAIN existing_log
                      \/ /\ log_rows[i].lakeview_id = DryRunId(dashboards[i].id)
                         /\ log_rows[i].migrated

\* C7: a failure of the migrate, publish or delete step of one dashboard never
\* aborts the workspace: once the loop over the dashboards has begun, the
\* workspace ends by returning its frame, with a record for every selected
\* dashboard, for fresh and for resumed records.
C7_StepFailureNeverAborts ==
    [][(pc \in Passes /\ pc' = "ws") =>
          /\ LastEnded'.status = "returned"
          /\ Len(LegacyRecords(ReturnedFrame)) = Len(dashboards)]_vars

\* the rows of workspace w in the combined report
ReportRows(w) == SelectSeq(all_dataframes, LAMBDA r : r.workspace = w)

\* C8: a workspace whose listing fails or whose host is invalid is the only one
\* aborted: the workspaces are taken in the configured order whatever happened
\* to the ones before, the combined report holds no record of an aborted
\* workspace and every record of the others, and the run ends with all of them
\* taken and the report written.
C8_WorkspaceIsolation ==
    /\ Len(ws_status) <= Len(workspaces)
    /\ \A i \in DOMAIN ws_status :
           /\ ws_status[i].name = workspaces[i].name
           /\ Len(ReportRows(ws_status[i].name)) =
                  (IF ws_status[i].status = "returned" THEN ws_status[i].rows ELSE 0)
    /\ pc \in Passes \cup {"list_legacy", "list_lakeview"} => Len(ws_status) = wi - 1
    /\ (pc = "idle" /\ clock > 0) =>
           /\ Len(ws_status) = Len(workspaces)
           /\ Len(log_file.lines) = Len(all_dataframes)

\* the run is over: the listing of w1 failed, the host of wbad was invalid, and
\* the report holds the records of w2 only
C8_Witness ==
    /\ pc = "idle"
    /\ Len(ws_status) = 3
    /\ ws_status[1].status = "raised"
    /\ \E op \in {"list_legacy", "list_lakeview"} : <<op, "w1", "", "failed">> \in issued
    /\ ws_status[2].status = "invalid_host"
    /\ ws_status[3].status = "returned"
    /\ ws_status[3].rows > 1
    /\ Len(log_file.lines) = ws_status[3].rows
    /\ \A i \in DOMAIN log_file.lines : log_file.lines[i].workspace = "w2"

\* the text s has the text p somewhere in it, case ignored
Contains(s, p) ==
    \E i, j \in 0..Len(s) : i <= j /\ Fold(SubSeq(s, i + 1, j)) = Fold(p)

\* what the caller expects filter_dashboards to keep
C9_Keep(d) ==
    /\ ~fExpr.selected_ids.none => d.id \in SeqToSet(fExpr.selected_ids.ids)
    /\ fExpr.path_pattern # <<>> => Contains(PathField(d), fExpr.path_pattern)
    /\ fExpr.owner_pattern # <<>> => Contains(OwnerField(d), fExpr.owner_pattern)
    /\ fExpr.name_pattern # <<>> => Contains(NameField(d), fExpr.name_pattern)

\* C9: filter_dashboards returns exactly the dashboards of its input, in input
\* order, whose id is among the selected ids (when there are any) and whose
\* path, owner and name each match the pattern given for it by a
\* case-insensitive search; the ids are applied first, so selecting id 2 with
\* path pattern /a over [{1, /a}, {2, /b}] gives nothing.
C9_FilterExact ==
    fExpr.stage = "filtered" =>
        /\ fExpr.out = SelectSeq(fExpr.dashboards, C9_Keep)
        /\ (/\ fExpr.dashboards = <<FDash1, FDash2>>
            /\ fExpr.selected_ids = [none |-> FALSE, ids |-> <<"2">>]
            /\ fExpr.path_pattern = <<"/", "a">>) => fExpr.out = <<>>

\* the example of the claim has been filtered
C9_Witness ==
    /\ fExpr.stage = "filtered"
    /\ fExpr.dashboards = <<FDash1, FDash2>>
    /\ fExpr.selected_ids = [none |-> FALSE, ids |-> <<"2">>]
    /\ fExpr.path_pattern = <<"/", "a">>
    /\ fExpr.owner_pattern = <<>>
    /\ fExpr.name_pattern = <<>>
    /\ fExpr.out = <<>>

\* C10: when an ID source is given to a run (a list, a CSV file or both), the
\* dashboards selected for migration are among the ids that the sources yield,
\* also when they yield none: then nothing is selected.
C10_SelectionWithinYielded ==
    (pc \in Passes /\ (args.selection.ids_given \/ args.selection.csv_given)) =>
        \A i \in DOMAIN dashboards :
            dashboards[i].id \in SeqToSet(YieldedIds(args.selection))

\* s is the beginning of t
IsPrefix(s, t) == Len(s) <= Len(t) /\ SubSeq(t, 1, Len(s)) = s

\* the id that the requests of the running step carry
StepTarget ==
    CASE pc = "migrate" -> dashboards[idx].id
      [] pc = "publish" -> log_rows[idx].lakeview_id
      [] pc = "delete" -> StrOf(log_rows[idx].legacy_id)

\* this step sends the last request that the retry loop allows, and it fails
StepFailsNow ==
    /\ pc \in Passes
    /\ attempt = args.max_retries - 1
    /\ calls' = attempt + 1
    /\ <<pc, workspace_name, StepTarget, "ok">> \notin issued'

\* the position of the record that the running step is about
StepRow == IF pc = "migrate" THEN Len(log_rows) + 1 ELSE idx

\* the error entries that a failed step can leave
StepErrorEntries == {ErrorEntry(step, Failure(n)) : step \in Passes, n \in 1..MaxRetries}

C11_Step ==
    pc \in Passes =>
        /\ pc' \in Passes =>
               /\ Len(log_rows') >= Len(log_rows)
               /\ \A i \in DOMAIN log_rows :
                      /\ IsPrefix(log_rows[i].error, log_rows'[i].error)
                      /\ Len(log_rows'[i].error) <= Len(log_rows[i].error) + 1
        /\ pc' = "ws" =>
               /\ Len(ReturnedFrame) >= Len(log_rows)
               /\ \A i \in DOMAIN log_rows : ReturnedFrame[i].error = log_rows[i].error
        /\ StepFailsNow =>
               /\ Len(log_rows') >= StepRow
               /\ LET before == IF pc = "migrate" THEN <<>> ELSE log_rows[idx].error
                      after == log_rows'[StepRow].error
                  IN  /\ Len(after) = Len(before) + 1
                      /\ IsPrefix(before, after)
                      /\ after[Len(after)] = ErrorEntry(pc, Failure(args.max_retries))

\* C11: within a run the error field of a record is append-only: a step
\* failure appends one entry "<step>_error: <type>: <details>" to what the
\* field holds, and no step shortens, clears or overwrites what an earlier
\* step wrote, up to the frame that the workspace returns.
C11_ErrorAppendOnly == [][C11_Step]_vars

\* C12: when the publish step of a record fails after its last retry, the
\* record keeps its published flag, publish timestamp, migrated flag,
\* lakeview_id and migration timestamp; only its error field changes, by one
\* publish_error entry appended.
C12_PublishFailureFrame ==
    [][(pc = "publish" /\ StepFailsNow) =>
          /\ pc' = "publish"
          /\ log_rows' = [log_rows EXCEPT ![idx].error =
                              Append(@, ErrorEntry("publish", Failure(args.max_retries)))]]_vars

\* the record is a line of the log file
Persisted(r) == \E k \in DOMAIN log_file.lines : log_file.lines[k] = WriteRow(r)

\* C13: when the process is killed in the middle of a run over several
\* workspaces, the records of every workspace that had returned its frame are
\* in the log file; only the workspaces not yet processed are missing.
C13_CrashKeepsCompleted ==
    pc = "crashed" =>
        \A i \in DOMAIN ws_status :
            ws_status[i].status = "returned" =>
                \A j \in DOMAIN all_dataframes :
                    all_dataframes[j].workspace = ws_status[i].name
                        => Persisted(all_dataframes[j])

C14_State ==
    /\ writes <= 1
    /\ pc \in Passes \cup {"ws", "list_legacy", "list_lakeview"} => writes = 0
    /\ (pc \in {"idle", "email"} /\ clock > 0) =>
           /\ writes = 1
           /\ Len(ws_status) = Len(workspaces)
           /\ log_file = to_csv(all_dataframes)
    /\ pc = "email" => notified = "none"
    /\ notified # "none" => pc = "idle"

C14_Step ==
    /\ log_file' # log_file => (pc = "ws" /\ wi > Len(workspaces) /\ notified = "none")
    /\ pc = "email" => (pc' = "idle" /\ log_file' = log_file /\ writes' = writes)

\* C14: a run that reaches the end writes the log file exactly once, after
\* the last workspace and before the email summary is attempted; whatever
\* happens to the summary (skipped, an exception), the file stays as written
\* and the run ends normally.
C14_LogWrittenOnce == []C14_State /\ [][C14_Step]_vars

\* the run has ended after an email summary that failed, the log written
C14_Witness ==
    /\ pc = "idle"
    /\ notified = "failed"
    /\ writes = 1
    /\ Len(log_file.lines) > 1
    /\ log_file = to_csv(all_dataframes)

\* C15: the persisted table has exactly the twenty fixed columns, in the fixed
\* order, whether or not any record exists and whatever columns the resumed
\* records carry; so has every frame a workspace returns.
C15_FixedColumns ==
    /\ fExpr.stage \in {"frames", "combined", "written"} =>
           \A i \in DOMAIN fExpr.frames : fExpr.frames[i].columns = all_columns
    /\ fExpr.stage \in {"combined", "written"} =>
           /\ fExpr.columns = all_columns
           /\ Len(fExpr.columns) = 20
    /\ fExpr.stage = "written" => fExpr.header = all_columns

\* a table written from a resumed record with a foreign column and missing
\* columns, the other workspace having no record
C15_Witness ==
    /\ fExpr.stage = "written"
    /\ fExpr.log_rows[1] = <<ResumedKeys(OldHeader)>>
    /\ fExpr.log_rows[2] = <<>>
    /\ fExpr.listed[2]
    /\ fExpr.header = all_columns

\* the line of the log is a record of a legacy dashboard that was migrated
IndexedLine(l) == l.migrated = "True" /\ l.lakeview_id # "" /\ l.legacy_id # ""

\* C16: the resume index built from the prior log has, for every row of a
\* legacy dashboard with migrated true and a non-empty lakeview_id, the key
\* "workspace:legacy_id" of that row, mapped to that row.
C16_ResumeIndexKeys ==
    (pc = "list_legacy" /\ args.resume) =>
        \A i \in DOMAIN log_file.lines :
            LET l == log_file.lines[i]
                key == ResumeKey(l.workspace, l.legacy_id)
            IN  IndexedLine(l) =>
                    /\ key \in DOMAIN existing_log
                    /\ StrOf(existing_log[key].lakeview_id) = l.lakeview_id

\* the prior log is absent, cannot be parsed, or lacks a required column
BadLog(file) ==
    \/ ~file.exists
    \/ ~file.readable
    \/ ~(RequiredColumns \subseteq SeqToSet(file.header))

\* C17: with resume enabled and a prior log that is absent, malformed or
\* lacking a required column, loading returns the empty index (no error), and
\* every selected dashboard is processed, as when resume is disabled.
C17_BadLogEmptyIndex ==
    (fExpr.resume /\ BadLog(fExpr.file)) =>
        /\ fExpr.stage \in {"loaded", "decided"} => fExpr.index = <<>>
        /\ fExpr.stage = "decided" => fExpr.processed = RIds

\* a log without the legacy_id column that has a migrated row was loaded and
\* the dashboards were decided on
C17_Witness ==
    /\ fExpr.stage = "decided"
    /\ fExpr.resume
    /\ fExpr.file = FileWithout(<<RLine("a", "n1", "True")>>, "legacy_id")
    /\ fExpr.processed = RIds

\* an informational record without a legacy record of the same run for its dashboard
Standalone(r, rows) ==
    /\ r.dashboard_type = "lakeview"
    /\ ~\E k \in DOMAIN rows :
           /\ rows[k].dashboard_type = "legacy"
           /\ rows[k].workspace = r.workspace
           /\ rows[k].lakeview_id = r.lakeview_id

\* no two legacy records with the same (workspace, legacy_id), no two standalone
\* informational records with the same (workspace, lakeview_id)
OneRecordPerKey(rows) ==
    \A i, j \in DOMAIN rows :
        i < j =>
            /\ (rows[i].dashboard_type = "legacy" /\ rows[j].dashboard_type = "legacy") =>
                   <<rows[i].workspace, rows[i].legacy_id>>
                       # <<rows[j].workspace, rows[j].legacy_id>>
            /\ (Standalone(rows[i], rows) /\ Standalone(rows[j], rows)) =>
                   <<rows[i].workspace, rows[i].lakeview_id>>
                       # <<rows[j].workspace, rows[j].lakeview_id>>

\* C18: the output of a run, also of a resume run over the log of an earlier
\* run, has one record per (workspace, legacy_id) among the legacy records -
\* one for each selected dashboard, in order - and one per (workspace,
\* lakeview_id) among the informational records without legacy counterpart.
C18_OneRecordPerResource ==
    /\ OneRecordPerKey(all_dataframes)
    /\ OneRecordPerKey(log_rows)
    /\ pc \in {"publish", "delete"} =>
           /\ Len(log_rows) = Len(dashboards)
           /\ \A i \in DOMAIN log_rows :
                  /\ log_rows[i].dashboard_type = "legacy"
                  /\ log_rows[i].workspace = workspace_name
                  /\ log_rows[i].legacy_id = dashboards[i].id

\* the output of a resume run with a resumed record, its informational twin
\* and a standalone informational record
C18_Witness ==
    /\ pc = "idle"
    /\ clock = 2
    /\ args.resume
    /\ \E i, j, k \in DOMAIN all_dataframes :
           /\ all_dataframes[i].dashboard_type = "legacy"
           /\ all_dataframes[i].migration_datetime = Times[1]
           /\ all_dataframes[j].dashboard_type = "lakeview"
           /\ all_dataframes[j].lakeview_id = all_dataframes[i].lakeview_id
           /\ Standalone(all_dataframes[k], all_dataframes)

\* the step is the return of migrate_dashboards after its merge
MergeStep ==
    /\ pc = "delete"
    /\ pc' = "ws"
    /\ ws_status'[Len(ws_status')].status = "returned"

\* the records that the step added to the output after those of log_rows
Merged == SubSeq(all_dataframes', Len(all_dataframes) + Len(log_rows) + 1, Len(all_dataframes'))

\* the Lakeview dashboard was made by the migrate step of this run
ProducedNow(id) ==
    \E k \in DOMAIN log_rows :
        /\ log_rows[k].lakeview_id = id
        /\ log_rows[k].migration_datetime = Stamp

C19_Step ==
    MergeStep =>
        /\ SubSeq(all_dataframes', 1, Len(all_dataframes) + Len(log_rows))
               = all_dataframes \o log_rows
        /\ Len(Merged) = Len(lakeview_dashboards)
        /\ \A i \in DOMAIN Merged :
               /\ Merged[i].workspace = workspace_name
               /\ Merged[i].dashboard_type = "lakeview"
               /\ Merged[i].legacy_id = ""
               /\ Merged[i].lakeview_id = lakeview_dashboards[i].id
               /\ Merged[i].migrated = TRUE
               /\ Merged[i].migration_datetime = ""
               /\ Merged[i].deleted_legacy = FALSE
               /\ Merged[i].published = lakeview_dashboards[i].is_published
        /\ \A id \in SeqToSet(remote[workspace_name].lakeview) :
               \/ ProducedNow(id)
               \/ \E i \in DOMAIN Merged : Merged[i].lakeview_id = id

HasInvalidHost == \E i \in DOMAIN workspaces : ~normalize_host(workspaces[i].host).ok

\* C20: a run whose configuration has a host without scheme issues no remote
\* call to any workspace.
C20_ConfigErrorIsFatal == HasInvalidHost => issued = {}

\* the option is on the command line, in any syntax argparse accepts
OnCommandLine(o) == \E i \in DOMAIN fExpr.argv : Resolve(fExpr.argv[i].name) = o

\* C21: for an option that is both on the command line and in the
\* configuration file the merged value is the command-line value, whatever the
\* syntax it was given in; a boolean option on the command line is true.
C21_CliOverridesConfig ==
    fExpr.stage = "merged" =>
        /\ (OnCommandLine(OptMaxRetries) /\ "max_retries" \in fExpr.config.keys) =>
               fExpr.merged.max_retries = CliRetries
        /\ OnCommandLine(OptDryRun) => fExpr.merged.dry_run = TRUE

\* the ids of the Lakeview dashboards of all workspaces
LakeviewIds == UNION {SeqToSet(remote[w].lakeview) : w \in DOMAIN remote}

C22_State ==
    pc \in {"publish", "delete"} =>
        \A i \in DOMAIN log_rows : log_rows[i].dashboard_type = "legacy"

C22_Step ==
    /\ \A e \in issued' \ issued :
           e[1] = "delete" =>
               /\ e[2] = workspace_name
               /\ e[3] = StrOf(log_rows[idx].legacy_id)
               /\ \E i \in DOMAIN dashboards : dashboards[i].id = e[3]
               /\ e[3] \notin LakeviewIds
    /\ \A e \in issued' \ issued :
           e[1] \in {"publish", "delete"} => log_rows[idx].dashboard_type = "legacy"
    /\ \A w \in DOMAIN remote : IsPrefix(remote[w].lakeview, remote'[w].lakeview)

\* C22: no Lakeview dashboard is ever deleted: every delete request carries the
\* legacy id of a record of a dashboard of the legacy listing of the same
\* workspace, and the records that the publish and delete passes go through are
\* legacy records only.
C22_NeverDeletesLakeview == []C22_State /\ [][C22_Step]_vars

\* a delete request was answered with success
C22_Witness ==
    /\ \E e \in issued : e[1] = "delete" /\ e[4] = "ok"
    /\ LakeviewIds # {}

\* main() is inside the processing of a workspace
InWorkspace == pc \in Passes \cup {"list_legacy", "list_lakeview"}

\* between two workspaces nothing of migrate_dashboards is left
C23_State ==
    pc = "ws" =>
        /\ existing_log = <<>>
        /\ dashboards = <<>>
        /\ lakeview_dashboards = <<>>
        /\ log_rows = <<>>
        /\ idx = 0
        /\ attempt = 0

\* what a workspace reads is fixed for the run or its own; what it writes is its
\* own remote and its own records, appended to those of the workspaces before
C23_Step ==
    /\ (pc = "ws" /\ wi <= Len(workspaces)) =>
           /\ args' = args
           /\ log_file' = log_file
           /\ remote' = remote
           /\ all_dataframes' = all_dataframes
           /\ pc' = "list_legacy" =>
                  existing_log' = (IF args.resume THEN load_existing_log(log_file) ELSE <<>>)
    /\ InWorkspace =>
           /\ args' = args
           /\ log_file' = log_file
           /\ \A w \in DOMAIN remote : w # workspace_name => remote'[w] = remote[w]
           /\ IsPrefix(all_dataframes, all_dataframes')
           /\ \A i \in (DOMAIN all_dataframes') \ (DOMAIN all_dataframes) :
                  all_dataframes'[i].workspace = workspace_name
           /\ \A e \in issued' \ issued : e[2] = workspace_name

StepIssued(r) ==
    \E res \in Results :
        \/ <<"migrate", workspace_name, StrOf(r.legacy_id), res>> \in issued
        \/ <<"publish", workspace_name, StrOf(r.lakeview_id), res>> \in issued
        \/ <<"delete", workspace_name, StrOf(r.legacy_id), res>> \in issued

\* C24: for a selected dashboard that is in the resume index the run sends no
\* migrate, publish or delete request, and its record is the prior record,
\* field for field.
C24_ResumedSkipsAllSteps ==
    (pc \in Passes /\ args.resume) =>
        \A i \in DOMAIN dashboards :
            LET key == ResumeKey(workspace_name, dashboards[i].id)
            IN  key \in DOMAIN existing_log =>
                    /\ ~StepIssued(existing_log[key])
                    /\ i \in DOMAIN log_rows => log_rows[i] = existing_log[key]

\* the phases of a workspace, in order
Phases == <<"list_legacy", "list_lakeview", "migrate", "publish", "delete">>

PhaseOf(p) == CHOOSE n \in DOMAIN Phases : Phases[n] = p

\* a request of phase op was sent to the workspace being processed
Sent(op) == \E e \in issued : e[1] = op /\ e[2] = workspace_name

C25_State ==
    InWorkspace =>
        /\ \A n \in DOMAIN Phases : n > PhaseOf(pc) => ~Sent(Phases[n])
        /\ pc \in Passes =>
               /\ <<"list_legacy", workspace_name, "", "ok">> \in issued
               /\ <<"list_lakeview", workspace_name, "", "ok">> \in issued
        /\ \A e \in issued :
               (e[1] = "delete" /\ e[2] = workspace_name) =>
                   \E i \in DOMAIN log_rows : StrOf(log_rows[i].legacy_id) = e[3]

C25_Step ==
    InWorkspace =>
        /\ \A e \in issued' \ issued : e[1] = pc /\ e[2] = workspace_name
        /\ pc' \in Passes \cup {"list_lakeview"} => PhaseOf(pc') \in {PhaseOf(pc), PhaseOf(pc) + 1}
        /\ pc' \notin Passes \cup {"list_lakeview"} => pc' = "ws"

\* C25: within a workspace the requests go out in the order of the phases: the
\* two listings have succeeded before the first migrate request, the migrate
\* loop has ended before the first publish request, the publish pass before the
\* first delete request, and a delete request is for a dashboard whose record
\* the migrate loop has already written.
C25_PhaseOrder == []C25_State /\ [][C25_Step]_vars

\* a workspace that got requests of all five phases
C25_Witness ==
    /\ pc = "delete"
    /\ \A n \in DOMAIN Phases : Sent(Phases[n])

\* the migrate step of this run appends the record of a dashboard
MigrateStepEnds ==
    /\ InMigrateLoop
    /\ ~InResumeIndex
    /\ Len(log_rows') = Len(log_rows) + 1

C26_Step ==
    MigrateStepEnds =>
        LET r == log_rows'[Len(log_rows')]
        IN  /\ r.migrated <=> ~IsEmptyId(r.lakeview_id)
            /\ r.migrated <=> r.migration_datetime # NONE
            /\ <<"migrate", workspace_name, legacy_id, "failed">> \in issued'
                   /\ <<"migrate", workspace_name, legacy_id, "ok">> \notin issued'
                   => (~r.migrated /\ r.migration_datetime = NONE /\ MigrateFailed(r))

\* C26: in every record that the migrate step of this run creates, whatever
\* max_retries is, migrated is true exactly when lakeview_id is non-empty and
\* exactly when migration_datetime is set; when every attempt failed the record
\* has migrated false, no migration_datetime and a migrate_error entry.
C26_MigrationFactsCoincide == [][C26_Step]_vars

RECURSIVE SumSeq(_)
SumSeq(q) == IF q = <<>> THEN 0 ELSE Head(q) + SumSeq(Tail(q))

\* 1 + 2 + ... + n
Triangle(n) == IF n <= 0 THEN 0 ELSE (n * (n + 1)) \div 2

\* C27: in the retry loop of a step the wait after the k-th failed attempt,
\* k < max_retries, is retry_delay * k; after the max_retries-th failed attempt
\* nothing is waited and the failure is raised; the waits of a step that fails
\* throughout add up to retry_delay * (1 + ... + (max_retries - 1)).
C27_LinearBackoff ==
    /\ \A k \in DOMAIN fExpr.sleeps : fExpr.sleeps[k] = fExpr.retry_delay * k
    /\ fExpr.status = "running" => Len(fExpr.sleeps) = fExpr.failed
    /\ fExpr.status = "raised" =>
           /\ fExpr.failed = fExpr.max_retries
           /\ Len(fExpr.sleeps) = fExpr.max_retries - 1
           /\ SumSeq(fExpr.sleeps) = fExpr.retry_delay * Triangle(fExpr.max_retries - 1)
    /\ fExpr.failed <= fExpr.max_retries

\* a step of three attempts failed throughout with a delay of two seconds
C27_Witness ==
    /\ fExpr.status = "raised"
    /\ fExpr.max_retries = 3
    /\ fExpr.retry_delay = 2
    /\ fExpr.sleeps = <<2, 4>>

\* the request of this step of the running pass is answered with success
StepSucceedsNow ==
    /\ InMigrateLoop \/ InPublishLoop \/ InDeleteLoop
    /\ <<pc, workspace_name, StepTarget, "ok">> \in issued' \ issued

\* the records after a step that succeeded at its first attempt
FirstTrySuccess ==
    CASE pc = "migrate" ->
             Append(log_rows,
                    LegacyRow(NewId(legacy_id, Len(remote[workspace_name].lakeview) + 1),
                              TRUE, Stamp, <<>>))
      [] pc = "publish" ->
             [log_rows EXCEPT ![idx].published = TRUE, ![idx].publish_datetime = Stamp]
      [] pc = "delete" ->
             [log_rows EXCEPT ![idx].deleted_legacy = TRUE]

C28_Step ==
    StepSucceedsNow =>
        /\ log_rows' = FirstTrySuccess
        /\ idx' = idx + 1
        /\ attempt' = 0
        /\ pc' = pc

\* C28: a step that succeeds at any attempt leaves the records as a step that
\* succeeds at the first attempt does - the flag of the step set, no error
\* entry for the attempts that failed - and the pass goes on to the next
\* record without a further attempt.
C28_RetrySuccessSameAsFirst == [][C28_Step]_vars

\* a publish step that failed once and then succeeded
C28_Witness ==
    /\ pc = "publish"
    /\ idx > 1
    /\ attempt = 0
    /\ calls = 2
    /\ <<"publish", workspace_name, log_rows[idx - 1].lakeview_id, "failed">> \in issued
    /\ <<"publish", workspace_name, log_rows[idx - 1].lakeview_id, "ok">> \in issued
    /\ log_rows[idx - 1].published
    /\ log_rows[idx - 1].error = <<>>

\* the pages that the listing has received
Received == SubSeq(fExpr.pages, 1, Len(fExpr.requests))

\* the listing ended, with a result or with the exception of a page
ListingEnded == fExpr.status \in {"returned", "raised"}

C29_State ==
    /\ \A k \in 1..Len(fExpr.requests) :
          fExpr.requests[k] = IF k = 1 THEN NONE ELSE fExpr.pages[k - 1].next_page_token
    /\ \A k \in 1..(Len(fExpr.requests) - 1) :
          fExpr.pages[k].ok /\ ~Falsy(fExpr.pages[k].next_page_token)
    /\ fExpr.status = "returned" =>
          /\ Falsy(Received[Len(Received)].next_page_token)
          /\ fExpr.result = {Flatten([k \in 1..Len(Received) |-> Received[k].results])}
    /\ fExpr.status = "raised" =>
          /\ ~Received[Len(Received)].ok
          /\ fExpr.result = {}
    /\ fExpr.status = "running" => fExpr.result = {}

\* the remote returns, within the requests drawn, a page without a token
EventuallyNoToken == \E k \in 1..MaxPages : Falsy(fExpr.pages[k].next_page_token)

\* C29: list_all_legacy_dashboards sends one request per page, the first
\* without a cursor and each later one with the cursor of the page before; it
\* returns when a page carries no cursor, and what it returns is the results
\* of the pages in page order; a failing page ends it with no result; and it
\* ends whenever the remote eventually returns a page without a cursor.
C29_LegacyPagination == []C29_State /\ (EventuallyNoToken => <>ListingEnded)

C29_Witness ==
    /\ fExpr.status = "returned"
    /\ Len(fExpr.requests) = 3
    /\ fExpr.result = {<<"a", "b">>}

\* the dashboards of all pages of the listing, in page order
Listed == Flatten([p \in 1..Len(LvListing) |-> LvListing[p].dashboards])

\* the dashboards that the loop of line 963 has left behind
Enumerated ==
    IF fExpr.stage = "request" \/ fExpr.status = "returned"
    THEN fExpr.all_dashboards
    ELSE fExpr.all_dashboards \o SubSeq(fExpr.dashboards, 1, fExpr.k - 1)

HasId(dashboard) == Truthy(dashboard.id)

\* the probe answered 200
Answered200(answer) == ~answer.raises /\ answer.status = 200

C30_State ==
    /\ fExpr.status = "raised" => fExpr.stage = "request"
    /\ fExpr.status = "returned" =>
          /\ fExpr.result = {Enumerated}
          /\ Len(Enumerated) = Len(Listed)
    /\ \A i \in 1..Len(Enumerated) : Enumerated[i].id = Listed[i].id
    /\ Len(SelectSeq(Enumerated, HasId)) = Len(fExpr.probes)
    /\ \A j \in 1..Len(fExpr.probes) :
          LET dashboard == SelectSeq(Enumerated, HasId)[j]
          IN  IF Answered200(fExpr.probes[j])
              THEN dashboard.is_published
              ELSE ~dashboard.is_published /\ dashboard.published_at = NONE

\* a detail fetch or a probe leaves the listing running, at the next request
\* of the same dashboard or at the next dashboard
C30_Step ==
    /\ Len(fExpr'.details) > Len(fExpr.details) =>
          fExpr'.status = "running" /\ fExpr'.stage = "probe" /\ fExpr'.k = fExpr.k
    /\ Len(fExpr'.probes) > Len(fExpr.probes) =>
          fExpr'.status = "running" /\ fExpr'.stage = "item" /\ fExpr'.k = fExpr.k + 1

FirstAvailable(body) ==
    IF body.shape # "dict" THEN ResponseText(body)
    ELSE IF body.error.kind = "dict" /\ TruthyScalar(body.error.message)
         THEN body.error.message.text
    ELSE IF TruthyScalar(body.message) THEN body.message.text
    ELSE IF TruthyValue(body.error) THEN ValueText(body.error, "'", "None")
    ELSE ResponseText(body)

\* C31: extract_error_details returns the first available of the nested
\* error.message, the top-level message and the top-level error, and
\* otherwise the raw body of the response, whatever the shape of the body.
C31_FirstAvailableMessage ==
    fExpr.stage = "returned" => fExpr.returned = FirstAvailable(fExpr.response)

\* the place of a workspace in the configuration, of a legacy dashboard in the
\* legacy listing of its workspace, of a Lakeview dashboard in the Lakeview one
WorkspacePos(name) == CHOOSE i \in DOMAIN workspaces : workspaces[i].name = name
LegacyPos(w, id) ==
    CHOOSE k \in DOMAIN RemoteInit[w].legacy : RemoteInit[w].legacy[k].id = id
LakeviewPos(w, id) == CHOOSE k \in DOMAIN remote[w].lakeview : remote[w].lakeview[k] = id

\* the record r stands before the record q in the order of the claim
InReportOrder(r, q) ==
    /\ WorkspacePos(r.workspace) <= WorkspacePos(q.workspace)
    /\ r.workspace = q.workspace =>
          IF r.dashboard_type = "lakeview"
          THEN /\ q.dashboard_type = "lakeview"
               /\ LakeviewPos(r.workspace, r.lakeview_id) < LakeviewPos(q.workspace, q.lakeview_id)
          ELSE q.dashboard_type = "legacy" =>
                   LegacyPos(r.workspace, StrOf(r.legacy_id)) < LegacyPos(q.workspace, StrOf(q.legacy_id))

C32_State ==
    /\ \A i \in DOMAIN all_dataframes :
          \E k \in DOMAIN workspaces : workspaces[k].name = all_dataframes[i].workspace
    /\ \A i, j \in DOMAIN all_dataframes :
          i < j => InReportOrder(all_dataframes[i], all_dataframes[j])

\* the frame of a workspace: a record per selected legacy dashboard, in the
\* order of the selection, then a record per listed Lakeview dashboard, every
\* one with the name of this workspace; main appends it to the frames before
C32_Step ==
    MergeStep =>
        /\ all_dataframes' = all_dataframes \o ReturnedFrame
        /\ Len(ReturnedFrame) = Len(dashboards) + Len(lakeview_dashboards)
        /\ \A k \in DOMAIN ReturnedFrame :
               /\ ReturnedFrame[k].workspace = workspace_name
               /\ k <= Len(dashboards) => StrOf(ReturnedFrame[k].legacy_id) = dashboards[k].id
               /\ k > Len(dashboards) =>
                      ReturnedFrame[k].lakeview_id = lakeview_dashboards[k - Len(dashboards)].id

NoIds == [none |-> TRUE, ids |-> <<>>]

\* filter_dashboards with one of the filters of the call and the others absent
ByIdsAlone == filter_dashboards(fExpr.dashboards, <<>>, <<>>, <<>>, fExpr.selected_ids)
ByPathAlone == filter_dashboards(fExpr.dashboards, fExpr.path_pattern, <<>>, <<>>, NoIds)
ByOwnerAlone == filter_dashboards(fExpr.dashboards, <<>>, fExpr.owner_pattern, <<>>, NoIds)
ByNameAlone == filter_dashboards(fExpr.dashboards, <<>>, <<>>, fExpr.name_pattern, NoIds)

\* the dashboard is in the result of every filter alone
InEveryAlone(d) ==
    \A alone \in {ByIdsAlone, ByPathAlone, ByOwnerAlone, ByNameAlone} : d \in SeqToSet(alone)

\* the pattern filters of the call, applied after the ids in the six orders
PatternOrders ==
    LET ds == FilterByIds(fExpr.dashboards, fExpr.selected_ids)
        P(x) == FilterByPath(x, fExpr.path_pattern)
        O(x) == FilterByOwner(x, fExpr.owner_pattern)
        N(x) == FilterByName(x, fExpr.name_pattern)
    IN  {N(O(P(ds))), O(N(P(ds))), N(P(O(ds))), P(N(O(ds))), O(P(N(ds))), P(O(N(ds)))}

\* C33: a call of filter_dashboards with no ids and no patterns returns its
\* input; with filters, the result is the dashboards of the input, in input
\* order, that each supplied filter alone keeps, and the order in which the
\* path, owner and name filters are applied does not change it.
C33_FiltersIntersect ==
    fExpr.stage = "filtered" =>
        /\ (/\ fExpr.selected_ids.none \/ fExpr.selected_ids.ids = <<>>
            /\ fExpr.path_pattern = <<>>
            /\ fExpr.owner_pattern = <<>>
            /\ fExpr.name_pattern = <<>>) => fExpr.out = fExpr.dashboards
        /\ fExpr.out = SelectSeq(fExpr.dashboards, InEveryAlone)
        /\ PatternOrders = {fExpr.out}

\* a call with ids, a path pattern and a name pattern kept a dashboard, and
\* less than the ids alone and less than the path pattern alone
C33_Witness ==
    /\ fExpr.stage = "filtered"
    /\ ~fExpr.selected_ids.none
    /\ fExpr.path_pattern # <<>>
    /\ fExpr.name_pattern # <<>>
    /\ fExpr.out # <<>>
    /\ Len(fExpr.out) < Len(ByIdsAlone)
    /\ Len(fExpr.out) < Len(ByPathAlone)

\* no migrate request is sent for a dashboard that the remote has migrated
NoSecondMigrate ==
    \A w \in {"w1", "w2"}, id \in {"a", "7"}, res \in Results :
        <<"migrate", w, id, res>> \in issued' \ issued => ~ReallyMigrated(w, id)

\* C34: in runs with --resume over one log file, whatever their filters and
\* modes and whether or not one of them crashed, no migrate request is sent
\* for a legacy dashboard for which a migrate request has succeeded before.
C34_NeverMigratedTwice == [][NoSecondMigrate]_vars

\* a call of the running step for its record has returned without error: in
\* a dry run the call sends nothing and returns whenever the loop makes it
CallReturned ==
    IF args.dry_run
    THEN args.max_retries > 0
    ELSE <<pc, workspace_name, StepTarget, "ok">> \in issued'

\* the step leaves the record of the pass in place
RecordKept == Len(log_rows') = Len(log_rows)

C35_Step ==
    /\ (MigrateStepEnds /\ log_rows'[Len(log_rows')].migrated) => CallReturned
    /\ (/\ InPublishLoop
        /\ RecordKept
        /\ log_rows'[idx].published
        /\ log_rows'[idx].publish_datetime # log_rows[idx].publish_datetime) => CallReturned
    /\ (/\ InDeleteLoop
        /\ RecordKept
        /\ log_rows'[idx].deleted_legacy
        /\ ~log_rows[idx].deleted_legacy) => CallReturned

\* C35: whatever max_retries is, a pass sets migrated, published or
\* deleted_legacy of a record to true only in a step in or before which a call
\* of that step for that record returned without error.
C35_FlagOnlyAfterCall == [][C35_Step]_vars

\* the log has been written by a run all of whose records it made itself: the
\* first run over the log file, or a run without --resume
LogOfThisRun ==
    /\ pc \in {"idle", "email"}
    /\ writes = 1
    /\ clock = 1 \/ ~args.resume

\* C36: in the log that a run has written, in a dry run as in a real run, a
\* record of this run with deleted_legacy true is a record for whose legacy id
\* a delete request was sent in this run and answered with success.
C36_LoggedDeletionTookPlace ==
    LogOfThisRun =>
        \A i \in DOMAIN log_file.lines :
            log_file.lines[i].deleted_legacy = "True" =>
                <<"delete", log_file.lines[i].workspace, log_file.lines[i].legacy_id, "ok">>
                    \in issued

\* the legacy dashboard is one that the filters of this run keep
InSelection(d) ==
    LET selected_ids == load_dashboard_selection(args.selection)
    IN  /\ ~selected_ids.none => d.id \in SeqToSet(selected_ids.ids)
        /\ args.filter_path # <<>> => Contains(PathField(d), args.filter_path)

\* the ids of the legacy dashboards of the workspace that this run selects
SelectedIds(w) ==
    {RemoteInit[w].legacy[k].id : k \in {j \in DOMAIN RemoteInit[w].legacy :
                                            InSelection(RemoteInit[w].legacy[j])}}

\* the Lakeview id is that of the copy, real or simulated, of the legacy dashboard
CopyOf(lakeview_id, w, id) ==
    \/ lakeview_id = DryRunId(id)
    \/ \E n \in 1..Len(remote[w].lakeview) : lakeview_id = NewId(id, n)

\* C37: every migrate and every delete request of a run carries the id of a
\* legacy dashboard of that workspace that the filters of the run keep, and
\* every publish request the id of the copy of such a dashboard, whatever
\* records the resume index holds.
C37_OnlySelectedAreTouched ==
    \A r \in issued :
        /\ r[1] \in {"migrate", "delete"} => r[3] \in SelectedIds(r[2])
        /\ r[1] = "publish" => \E id \in SelectedIds(r[2]) : CopyOf(r[3], r[2], id)

\* a run with --resume and --publish that selects dashboard 7 alone has sent
\* the publish request of w1 while the resume index holds the record of the
\* unselected dashboard a of w1 and a record of w2
C37_Witness ==
    /\ pc = "publish"
    /\ workspace_name = "w1"
    /\ args.resume
    /\ SelectedIds("w1") = {"7"}
    /\ ResumeKey("w1", "a") \in DOMAIN existing_log
    /\ ResumeKey("w2", "a") \in DOMAIN existing_log
    /\ \E r \in issued : r[1] = "publish" /\ r[2] = "w1" /\ r[4] = "ok"

\* the error entries that a failed publish step can leave
PublishErrorEntries == {ErrorEntry("publish", Failure(n)) : n \in 1..MaxRetries}

\* the publish step of this record failed: a publish_error entry, published false
PublishFailed(r) ==
    /\ ~r.published
    /\ \E i \in DOMAIN r.error : r.error[i] \in PublishErrorEntries

\* the run publishes and deletes
PublishAndDelete == args.publish /\ args.delete_legacy

\* delete_legacy_dashboard is called for the record that the delete pass is at
DeleteAttempted ==
    IF args.dry_run THEN args.max_retries > 0
    ELSE \E res \in Results : <<"delete", workspace_name, DeleteTarget, res>> \in issued'

\* the delete request of this step is answered with success
DeleteAnswered ==
    /\ InDeleteLoop
    /\ <<"delete", workspace_name, DeleteTarget, "ok">> \in issued' \ issued

C38_Step ==
    /\ (PublishAndDelete /\ pc = "publish") => pc' \in {"publish", "delete"}
    /\ (PublishAndDelete /\ InDeleteLoop /\ HasLakeviewId(row) /\ pc' = "delete" /\ idx' = idx + 1)
           => DeleteAttempted
    /\ (PublishAndDelete /\ DeleteAnswered /\ PublishFailed(row))
           => /\ pc' = "delete"
              /\ log_rows'[idx].deleted_legacy
              /\ PublishFailed(log_rows'[idx])
              /\ \A i \in DOMAIN remote'[workspace_name].legacy :
                     remote'[workspace_name].legacy[i].id # DeleteTarget

\* C38: in a run with --publish and --delete-legacy, whatever the publish pass
\* does to a record it is followed by the delete pass, the delete pass calls the
\* delete step for every record with a new_id that it passes, and a record
\* whose publish step failed is marked deleted and its legacy dashboard is gone
\* once the delete request is answered with success.
C38_DeleteRegardlessOfPublish == [][C38_Step]_vars

\* the error entries that a failed delete step can leave
DeleteErrorEntries == {ErrorEntry("delete", Failure(n)) : n \in 1..MaxRetries}

\* the error field holds an entry of this kind
Holds(error, entries) == \E i \in DOMAIN error : error[i] \in entries

\* a record in memory
C39_RecordOk(r) ==
    /\ r.deleted_legacy => r.migrated
    /\ Holds(r.error, MigrateErrorEntries) =>
           /\ IsEmptyId(r.lakeview_id)
           /\ ~Holds(r.error, PublishErrorEntries)
           /\ ~Holds(r.error, DeleteErrorEntries)

\* a line of the log file
C39_LineOk(l) ==
    /\ l.deleted_legacy = "True" => l.migrated = "True"
    /\ Holds(l.error, MigrateErrorEntries) =>
           /\ l.lakeview_id = ""
           /\ ~Holds(l.error, PublishErrorEntries)
           /\ ~Holds(l.error, DeleteErrorEntries)

\* C39: in every record of the passes, of the report and of the log file, of
\* every run, deleted_legacy true implies migrated true, and a record with a
\* migrate_error entry has an empty new_id and neither a publish_error nor a
\* delete_error entry.
C39_RecordInvariants ==
    /\ \A i \in DOMAIN log_rows : C39_RecordOk(log_rows[i])
    /\ \A i \in DOMAIN all_dataframes : C39_RecordOk(all_dataframes[i])
    /\ \A i \in DOMAIN log_file.lines : C39_LineOk(log_file.lines[i])

\* the log of a run with --publish and --delete-legacy has been written with
\* the record of a failed migrate step and a record marked deleted
C39_Witness ==
    /\ PublishAndDelete
    /\ writes = 1
    /\ \E i, j \in DOMAIN log_file.lines :
           /\ Holds(log_file.lines[i].error, MigrateErrorEntries)
           /\ log_file.lines[i].workspace = log_file.lines[j].workspace
           /\ log_file.lines[j].deleted_legacy = "True"

=============================================================================
